---- MODULE Spec2Model ----
(***************************************************************************)
(* Model of the agent orchestration engine of backend/src/core.            *)
(*                                                                         *)
(* The orchestrator part models one run of Orchestrator.execute_task over  *)
(* the LangGraph graph analyze_task -> select_agent -> execute_skill ->    *)
(* aggregate_results, against the agents table that the API and the seed *)
(* script write concurrently.  Not modelled: the rendered prompt, the      *)
(* per-skill input dictionary and the timestamps of a step result, and     *)
(* the task metadata (task_id, user_id, team_id, subtask_id) that the      *)
(* graph only copies through.                                              *)
(*                                                                         *)
(* The event bus part models EventBus: the bounded queue that publish      *)
(* fills, the handler lists, start() and stop() with the suspension of     *)
(* stop() at its await, and each _process_events task with the calls its   *)
(* dispatch gathered.  The orchestrator publishes through the same queue.  *)
(* The bus is checked in specifications of its own (dispatch, topics,      *)
(* delivery, lifecycle, one task on the bus), each with the actions its    *)
(* setting needs.  Not modelled: event payloads and timestamps, and a      *)
(* handler that catches its own cancellation.                              *)
(***************************************************************************)
EXTENDS Integers, Sequences, FiniteSets, TLC

\* ------------------------------------------------------------------ bounds
MaxPlanLen == 2        \* longest JSON array the planner replies with
MaxContentLen == 3     \* longest planner reply, in tokens
NumAgents == 2         \* agent rows ever created
QueueCapacity == 2     \* event_bus_max_queue_size, the maxsize of the bus queue
MaxPublish == 3        \* events published by the API routes and agent connections
MaxTasks == 3          \* dispatch-loop tasks ever created by start()
NumHandlers == 2       \* distinct handler callables
MaxSubscriptions == 2  \* entries in all handler lists together
MaxStopCalls == 1      \* stop() calls suspended at the same time
MaxTopicEvents == 1    \* events published where every topic can be subscribed
MaxOps == 3            \* calls made on the MCP client registry

\* --------------------------------------------------------------- constants
NULL == "None"         \* Python None for string-valued fields
NoAgent == 0           \* Python None for selected_agent_id; agent ids are 1..NumAgents

TaskTypes == {"code_review", "bug_fix", "translation"}
PlannerStrings == {"generate_code", ""}
AgentSkillSets == {{}, {"generate_code"}, {"review_code"}}
ResultTexts == {"skill output", "Error: skill failed"}

NoAgentsError(skill) == <<"No agents available for skill: ", skill>>
NoSelectionError == <<"No agent or skill selected">>
AgentNotFoundError(id) == <<"Agent not found", id>>
NoError == <<>>

\* ------------------------------------------------------------ JSON values
JsonStr(s) == [kind |-> "str", s |-> s, items |-> <<>>]
JsonOther == [kind |-> "other", s |-> "", items |-> <<>>]
JsonList(items) == [kind |-> "list", s |-> "", items |-> items]

JsonAtoms == {JsonStr(s) : s \in PlannerStrings} \cup {JsonOther}

SeqsUpTo(S, n) == UNION {[1..k -> S] : k \in 0..n}

JsonValues == JsonAtoms \cup {JsonList(items) : items \in SeqsUpTo(JsonAtoms, MaxPlanLen)}

\* ------------------------------------------------- the planner's reply text
\* A reply is a sequence of tokens: a JSON document, the markers that open a
\* fenced json block and that open or close any fenced block, or other prose.
FenceJson == [kind |-> "fence_json", s |-> "", items |-> <<>>]
Fence == [kind |-> "fence", s |-> "", items |-> <<>>]
Prose == [kind |-> "prose", s |-> "", items |-> <<>>]
Document == [kind |-> "document", s |-> "", items |-> <<>>]

ContentShapes == SeqsUpTo({FenceJson, Fence, Prose, Document}, MaxContentLen)

\* the replies: every shape, with each JSON value as its document
Contents ==
    {[i \in 1..Len(shape) |-> IF shape[i] = Document THEN v ELSE shape[i]] :
        shape \in ContentShapes, v \in JsonValues}

Range(seq) == {seq[i] : i \in 1..Len(seq)}

IndexOf(seq, T) ==
    IF Range(seq) \cap T = {} THEN 0
    ELSE CHOOSE i \in 1..Len(seq) : seq[i] \in T /\ \A j \in 1..(i - 1) : seq[j] \notin T

\* text.split(sep)[0]
SplitFirst(seq, T) ==
    IF IndexOf(seq, T) = 0 THEN seq ELSE SubSeq(seq, 1, IndexOf(seq, T) - 1)

\* text.split(sep)[1], for a text that contains sep
SplitSecond(seq, T) ==
    SplitFirst(SubSeq(seq, IndexOf(seq, T) + 1, Len(seq)), T)

ExtractJson(content) ==
    IF FenceJson \in Range(content)
    THEN SplitFirst(SplitSecond(content, {FenceJson}), {Fence, FenceJson})
    ELSE IF Fence \in Range(content)
    THEN SplitFirst(SplitSecond(content, {Fence}), {Fence})
    ELSE content

JSONDecodeError == [kind |-> "JSONDecodeError", s |-> "", items |-> <<>>]
CompletionError == [kind |-> "CompletionError", s |-> "", items |-> <<>>]

NotCalled == [kind |-> "not_called", s |-> "", items |-> <<>>]

JsonLoads(text) ==
    IF Len(text) = 1 /\ text[1] \in JsonValues THEN text[1] ELSE JSONDecodeError

\* response.choices[0].message.content or "[]", fence stripping, json.loads
ParseContent(content) ==
    LET text == IF content = <<>> THEN <<JsonList(<<>>)>> ELSE content
    IN JsonLoads(ExtractJson(text))

\* every outcome of the try block's calls: the completion raises, or it
\* returns a content that json.loads accepts or rejects
PlannerOutcomes == {CompletionError} \cup {ParseContent(c) : c \in Contents}

IsException(v) == v.kind \in {"JSONDecodeError", "CompletionError"}

PendingStep(skill) == [skill |-> skill, status |-> "pending", result |-> NULL]

PlanFromJson_unfiltered(v) ==
    LET items == IF v.kind # "list" THEN <<v>> ELSE v.items
    IN [i \in 1..Len(items) |-> PendingStep(items[i].s)]

PlanFromJson(v) ==
    LET items == IF v.kind # "list" THEN <<v>> ELSE v.items
        strs == SelectSeq(items, LAMBDA e : e.kind = "str")
    IN [i \in 1..Len(strs) |-> PendingStep(strs[i].s)]

task_to_skills(task_type) ==
    CASE task_type = "code_generation" -> <<PendingStep("generate_code")>>
      [] task_type = "code_review" -> <<PendingStep("review_code")>>
      [] task_type = "bug_fix" -> <<PendingStep("debug_code"), PendingStep("generate_code")>>
      [] task_type = "refactor" -> <<PendingStep("refactor_code")>>
      [] task_type = "security_audit" -> <<PendingStep("check_security")>>
      [] task_type = "documentation" -> <<PendingStep("generate_code")>>
      [] OTHER -> <<PendingStep("generate_code")>>

AnalyzePlan_noFallback(task_type, outcome) ==
    IF IsException(outcome) THEN <<>> ELSE PlanFromJson(outcome)

AnalyzePlan(task_type, outcome) ==
    IF IsException(outcome) THEN task_to_skills(task_type) ELSE PlanFromJson(outcome)

\* --------------------------------------------------------------- event bus
\* A topic is the sequence of the segments between its dots.
EventType ==
    ("agent.connected" :> <<"agent", "connected">>) @@
    ("agent.disconnected" :> <<"agent", "disconnected">>) @@
    ("task.created" :> <<"task", "created">>) @@
    ("task.assigned" :> <<"task", "assigned">>) @@
    ("task.started" :> <<"task", "started">>) @@
    ("task.progress" :> <<"task", "progress">>) @@
    ("task.completed" :> <<"task", "completed">>) @@
    ("system.warning" :> <<"system", "warning">>) @@
    ("system.error" :> <<"system", "error">>) @@
    ("mcp.tool_called" :> <<"mcp", "tool_called">>) @@
    ("mcp.tool_result" :> <<"mcp", "tool_result">>)

\* kinds published by the API routes and the agent connections
ProducerTypes == {"agent.connected", "agent.disconnected", "task.created"}

\* topics given to subscribe and unsubscribe
Topics == {<<"agent", "connected">>, <<"agent", "*">>, <<"task", "created">>, <<"*">>}

HandlerIds == 1..NumHandlers

QueuedEvent(event_id, type) == [event_id |-> event_id, type |-> type]

NoEvent == [event_id |-> 0, type |-> NULL]

\* asyncio.Queue.full(): a maxsize of 0 or less is an unbounded queue
Full(q) == QueueCapacity > 0 /\ Len(q) >= QueueCapacity

PublishQueue_dropNewest(q, event) ==
    IF ~Full(q) THEN Append(q, event)
    ELSE IF q # <<>> THEN Append(SubSeq(q, 1, Len(q) - 1), event)
    ELSE q

\* publish: put_nowait, and on QueueFull get_nowait then put_nowait
PublishQueue(q, event) ==
    IF ~Full(q) THEN Append(q, event)
    ELSE IF q # <<>> THEN Append(Tail(q), event)
    ELSE q

\* self._handlers.get(key, [])
Get(hs, key) == IF key \in DOMAIN hs THEN hs[key] ELSE <<>>

\* topic.rsplit(".", 1)[0] if "." in topic else topic
Prefix(topic) == IF Len(topic) > 1 THEN SubSeq(topic, 1, Len(topic) - 1) ELSE topic

\* f"{prefix}.*"
WildcardKey(topic) == Append(Prefix(topic), "*")

MatchingHandlers_exactOnly(hs, topic) == Get(hs, topic)

\* the handler list _dispatch builds
MatchingHandlers(hs, topic) ==
    Get(hs, topic) \o Get(hs, WildcardKey(topic)) \o Get(hs, <<"*">>)

\* list.remove: the first occurrence
Remove(seq, x) ==
    LET i == CHOOSE k \in 1..Len(seq) : seq[k] = x /\ \A j \in 1..(k - 1) : seq[j] # x
    IN [j \in 1..(Len(seq) - 1) |-> IF j < i THEN seq[j] ELSE seq[j + 1]]

Call(handler) == [handler |-> handler, phase |-> "scheduled"]

Finished(call) == call.phase \in {"returned", "raised"}

NewTask == [state |-> "created", event |-> NoEvent, calls |-> <<>>]

\* ------------------------------------------------------------------- state
VARIABLES
    pc,                   \* graph node about to run, or idle / return / done / raised
    task_type,
    plan,
    current_step,
    selected_agent_id,
    skill_name,
    step_results,
    agent_selection_log,
    final_result,
    error,
    status,
    agents,               \* rows of the agents table, in query order
    next_agent_id,
    published,            \* events handed to event_bus.publish by this execution
    planner_outcome,      \* history: what the try block of analyze_task produced
    handlers,             \* EventBus._handlers: topic -> list of handlers
    queue,                \* EventBus._queue
    running,              \* EventBus._running
    processor_task,       \* EventBus._processor_task: a task id, or NoTask
    tasks,                \* the _process_events tasks created so far
    stop_calls,           \* per task, the stop() calls suspended awaiting it
    next_event_id,        \* Event.event_id of the next event
    invoked,              \* history: handler invocations, in order
    connections,          \* MCPClientManager._connections: entries in insertion order
    conns,                \* the AgentConnection objects created so far
    lock,                 \* MCPClientManager._lock: its holder and its waiters
    ops,                  \* the calls made on the registry, each with its position
    sessions,             \* the transport sessions opened and not yet closed
    clients,              \* the HTTP clients created and not yet closed
    executions,           \* the state of each concurrent execute_task call
    heap                  \* the list objects the execution states refer to

vars == <<pc, task_type, plan, current_step, selected_agent_id, skill_name,
          step_results, agent_selection_log, final_result, error, status,
          agents, next_agent_id, published, planner_outcome,
          handlers, queue, running, processor_task, tasks, stop_calls,
          next_event_id, invoked,
          connections, conns, lock, ops, sessions, clients,
          executions, heap>>

mcp_vars == <<connections, conns, lock, ops, sessions, clients>>

exec_vars == <<executions, heap>>

pub_vars == <<queue, next_event_id>>

loop_vars == <<handlers, running, processor_task, tasks, stop_calls, invoked>>

bus_vars == <<pub_vars, loop_vars>>

table_vars == <<agents, next_agent_id>>

NoTask == 0

orch_vars == <<pc, task_type, plan, current_step, selected_agent_id, skill_name,
               step_results, agent_selection_log, final_result, error, status,
               published, planner_outcome>>

Event(type, step, total) == [type |-> type, step |-> step, total |-> total]

\* Two execute_task calls on one Orchestrator, each a coroutine that runs its
\* graph node by node. A Python list is an object: the state of an execution
\* holds references to lists on the heap, and two states can hold the same list.
Executions == {"first", "second"}

NoList == 0

\* the state of a call that was not made yet
NotStarted ==
    [pc |-> "idle", task_type |-> NULL, planner_outcome |-> NotCalled,
     plan |-> NoList, current_step |-> 0, selected_agent_id |-> NoAgent,
     skill_name |-> NULL, step_results |-> NoList, agent_selection_log |-> NoList,
     final_result |-> <<>>, error |-> NoError, status |-> "pending"]

Init ==
    /\ pc = "idle"
    /\ task_type = NULL
    /\ plan = <<>>
    /\ current_step = 0
    /\ selected_agent_id = NoAgent
    /\ skill_name = NULL
    /\ step_results = <<>>
    /\ agent_selection_log = <<>>
    /\ final_result = <<>>
    /\ error = NoError
    /\ status = "pending"
    /\ agents = <<>>
    /\ next_agent_id = 1
    /\ published = <<>>
    /\ planner_outcome = NotCalled
    /\ handlers = [topic \in Topics |-> <<>>]
    /\ queue = <<>>
    /\ running = FALSE
    /\ processor_task = NoTask
    /\ tasks = <<>>
    /\ stop_calls = [t \in 1..MaxTasks |-> 0]
    /\ next_event_id = 1
    /\ invoked = <<>>
    /\ connections = <<>>
    /\ conns = <<>>
    /\ lock = [holder |-> 0, waiters |-> <<>>]
    /\ ops = <<>>
    /\ sessions = {}
    /\ clients = {}
    /\ executions = [e \in Executions |-> NotStarted]
    /\ heap = <<>>

publish_awaitsPut(type) ==
    /\ ~Full(queue)
    /\ queue' = Append(queue, QueuedEvent(next_event_id, type))
    /\ next_event_id' = next_event_id + 1

\* EventBus.publish of an event of the given type
publish(type) ==
    /\ queue' = PublishQueue(queue, QueuedEvent(next_event_id, type))
    /\ next_event_id' = next_event_id + 1

\* ------------------------------------------------------- the agents table
\* The table is written while a task runs: the seed script adds online agents
\* with skills, the API registers agents as pending and sets them online on
\* connect, and a row can be gone by the time execute_skill looks it up.
SeedAgent(skills) ==
    /\ next_agent_id <= NumAgents
    /\ agents' = Append(agents, [id |-> next_agent_id, status |-> "online", skills |-> skills])
    /\ next_agent_id' = next_agent_id + 1
    /\ UNCHANGED <<mcp_vars, exec_vars, orch_vars, bus_vars>>

RegisterAgent ==
    /\ next_agent_id <= NumAgents
    /\ agents' = Append(agents, [id |-> next_agent_id, status |-> "pending", skills |-> {}])
    /\ next_agent_id' = next_agent_id + 1
    /\ UNCHANGED <<mcp_vars, exec_vars, orch_vars, bus_vars>>

ConnectToAgent(i) ==
    /\ i \in 1..Len(agents)
    /\ agents[i].status # "online"
    /\ agents' = [agents EXCEPT ![i].status = "online"]
    /\ UNCHANGED <<mcp_vars, exec_vars, next_agent_id, orch_vars, bus_vars>>

RemoveAgent(i) ==
    /\ i \in 1..Len(agents)
    /\ agents' = [j \in 1..(Len(agents) - 1) |-> IF j < i THEN agents[j] ELSE agents[j + 1]]
    /\ UNCHANGED <<mcp_vars, exec_vars, next_agent_id, orch_vars, bus_vars>>

\* ------------------------------------------------------------ execute_task
ExecuteTask(tt) ==
    /\ pc = "idle"
    /\ pc' = "analyze_task"
    /\ task_type' = tt
    /\ plan' = <<>>
    /\ current_step' = 0
    /\ selected_agent_id' = NoAgent
    /\ skill_name' = NULL
    /\ step_results' = <<>>
    /\ agent_selection_log' = <<>>
    /\ final_result' = <<>>
    /\ error' = NoError
    /\ status' = "pending"
    /\ UNCHANGED <<mcp_vars, exec_vars, agents, next_agent_id, published, planner_outcome, bus_vars>>

AnalyzeTask(outcome) ==
    /\ pc = "analyze_task"
    /\ published' = Append(published, Event("task.started", 0, 0))
    /\ publish("task.started")
    /\ planner_outcome' = outcome
    /\ plan' = AnalyzePlan(task_type, outcome)
    /\ current_step' = 0
    /\ step_results' = <<>>
    /\ status' = "planning"
    /\ pc' = "select_agent"
    /\ UNCHANGED <<mcp_vars, exec_vars, task_type, selected_agent_id, skill_name, agent_selection_log,
                   final_result, error, agents, next_agent_id, loop_vars>>

\* ------------------------------------------------------------ select_agent
OnlineAgents(table) == SelectSeq(table, LAMBDA a : a.status = "online")

AgentsWithSkill(candidates, required_skill) ==
    SelectSeq(candidates, LAMBDA a : required_skill \in a.skills)

Selection_ignoresSkill(candidates, required_skill) ==
    IF candidates # <<>>
    THEN [selected |-> candidates[1].id, reason |-> "falling back"]
    ELSE [selected |-> NoAgent, reason |-> "no online agents"]

Selection(candidates, required_skill) ==
    LET agents_with_skill == AgentsWithSkill(candidates, required_skill)
    IN IF agents_with_skill # <<>>
       THEN [selected |-> agents_with_skill[1].id, reason |-> "has the required skill"]
       ELSE IF candidates # <<>>
       THEN [selected |-> candidates[1].id, reason |-> "falling back"]
       ELSE [selected |-> NoAgent, reason |-> "no online agents"]

LogEntry_oneBased(step, required_skill, candidates, sel) ==
    [step |-> step + 1,
     required_skill |-> required_skill,
     candidates |-> [i \in 1..Len(candidates) |->
                        [id |-> candidates[i].id, skills |-> candidates[i].skills]],
     skill_matches |-> [i \in 1..Len(AgentsWithSkill(candidates, required_skill)) |->
                           AgentsWithSkill(candidates, required_skill)[i].id],
     selected |-> sel.selected,
     reason |-> sel.reason]

LogEntry(step, required_skill, candidates, sel) ==
    [step |-> step,
     required_skill |-> required_skill,
     candidates |-> [i \in 1..Len(candidates) |->
                        [id |-> candidates[i].id, skills |-> candidates[i].skills]],
     skill_matches |-> [i \in 1..Len(AgentsWithSkill(candidates, required_skill)) |->
                           AgentsWithSkill(candidates, required_skill)[i].id],
     selected |-> sel.selected,
     reason |-> sel.reason]

check_agent_selection_always(agent_id) == "execute_skill"

\* conditional edge after select_agent
check_agent_selection(agent_id) ==
    IF agent_id = NoAgent THEN "aggregate_results" ELSE "execute_skill"

\* conditional edge after execute_skill
should_continue_byStepOnly(st, step, p) ==
    IF step >= Len(p) THEN "aggregate_results" ELSE "select_agent"

should_continue(st, step, p) ==
    IF st = "failed" THEN "aggregate_results"
    ELSE IF step >= Len(p) THEN "aggregate_results"
    ELSE "select_agent"

SelectAgent ==
    /\ pc = "select_agent"
    /\ IF current_step >= Len(plan)
       THEN /\ selected_agent_id' = NoAgent
            /\ pc' = check_agent_selection(NoAgent)
            /\ UNCHANGED <<skill_name, agent_selection_log, error, status, published,
                           pub_vars>>
       ELSE LET required_skill == plan[current_step + 1].skill
                candidates == OnlineAgents(agents)
                sel == Selection(candidates, required_skill)
                log == Append(agent_selection_log,
                              LogEntry(current_step, required_skill, candidates, sel))
            IN IF sel.selected = NoAgent
               THEN /\ published' = Append(published, Event("system.warning", 0, 0))
                    /\ publish("system.warning")
                    /\ selected_agent_id' = NoAgent
                    /\ agent_selection_log' = log
                    /\ error' = NoAgentsError(required_skill)
                    /\ status' = "failed"
                    /\ pc' = check_agent_selection(NoAgent)
                    /\ UNCHANGED skill_name
               ELSE /\ published' = Append(published, Event("task.assigned", 0, 0))
                    /\ publish("task.assigned")
                    /\ selected_agent_id' = sel.selected
                    /\ skill_name' = required_skill
                    /\ agent_selection_log' = log
                    /\ status' = "executing"
                    /\ pc' = check_agent_selection(sel.selected)
                    /\ UNCHANGED error
    /\ UNCHANGED <<mcp_vars, exec_vars, task_type, plan, current_step, step_results, final_result,
                   agents, next_agent_id, planner_outcome, loop_vars>>

\* the agents query of select_agent raises; nothing catches it up to the caller
SelectAgentRaises ==
    /\ pc = "select_agent"
    /\ current_step < Len(plan)
    /\ pc' = "raised"
    /\ UNCHANGED <<mcp_vars, exec_vars, task_type, plan, current_step, selected_agent_id, skill_name,
                   step_results, agent_selection_log, final_result, error, status,
                   agents, next_agent_id, published, planner_outcome, bus_vars>>

\* ----------------------------------------------------------- execute_skill
StepResult(step, agent_id, skill, result_text) ==
    [step |-> step, agent_id |-> agent_id, skill |-> skill, result |-> result_text]

AgentExists_unchecked(table, agent_id) == TRUE

AgentExists(table, agent_id) == \E i \in 1..Len(table) : table[i].id = agent_id

MarkCompleted_forgotten(p, step, result_text) == p

MarkCompleted_afterAdvance(p, step, result_text) ==
    IF step + 1 < Len(p)
    THEN [p EXCEPT ![step + 2].status = "completed", ![step + 2].result = result_text]
    ELSE p

MarkCompleted(p, step, result_text) ==
    IF step < Len(p)
    THEN [p EXCEPT ![step + 1].status = "completed", ![step + 1].result = result_text]
    ELSE p

\* execute_skill up to the point where its return value is applied: the early
\* returns, or the call of the inference service and the in-place updates of
\* step_results and plan, and the progress event
ExecuteSkill(result_text) ==
    /\ pc = "execute_skill"
    /\ IF selected_agent_id = NoAgent \/ skill_name \in {NULL, ""}
       THEN /\ error' = NoSelectionError
            /\ status' = "failed"
            /\ pc' = should_continue("failed", current_step, plan)
            /\ UNCHANGED <<step_results, plan, published, pub_vars>>
       ELSE IF ~AgentExists(agents, selected_agent_id)
       THEN /\ error' = AgentNotFoundError(selected_agent_id)
            /\ status' = "failed"
            /\ pc' = should_continue("failed", current_step, plan)
            /\ UNCHANGED <<step_results, plan, published, pub_vars>>
       ELSE /\ step_results' = Append(step_results,
                StepResult(current_step + 1, selected_agent_id, skill_name, result_text))
            /\ plan' = MarkCompleted(plan, current_step, result_text)
            /\ published' = Append(published,
                Event("task.progress", current_step + 1, Len(plan)))
            /\ publish("task.progress")
            /\ pc' = "execute_skill_return"
            /\ UNCHANGED <<error, status>>
    /\ UNCHANGED <<mcp_vars, exec_vars, task_type, current_step, selected_agent_id, skill_name,
                   agent_selection_log, final_result, agents, next_agent_id,
                   planner_outcome, loop_vars>>

\* the returned state is applied and the conditional edge is taken
ExecuteSkillReturn ==
    /\ pc = "execute_skill_return"
    /\ current_step' = current_step + 1
    /\ pc' = should_continue(status, current_step + 1, plan)
    /\ UNCHANGED <<mcp_vars, exec_vars, task_type, plan, selected_agent_id, skill_name, step_results,
                   agent_selection_log, final_result, error, status, agents,
                   next_agent_id, published, planner_outcome, bus_vars>>

\* the agent lookup or the inference service raises
ExecuteSkillRaises ==
    /\ pc = "execute_skill"
    /\ selected_agent_id # NoAgent
    /\ skill_name \notin {NULL, ""}
    /\ pc' = "raised"
    /\ UNCHANGED <<mcp_vars, exec_vars, task_type, plan, current_step, selected_agent_id, skill_name,
                   step_results, agent_selection_log, final_result, error, status,
                   agents, next_agent_id, published, planner_outcome, bus_vars>>

\* ------------------------------------------------------- aggregate_results
NoResultsGenerated == <<"No results generated.">>

FinalResult(results) ==
    IF results = <<>> THEN NoResultsGenerated
    ELSE [i \in 1..Len(results) |-> <<results[i].skill, results[i].result>>]

\* r.get("error") is truthy
RecordedError(r) == "error" \in DOMAIN r /\ r["error"] \notin {NULL, ""}

has_errors(results) == \E i \in 1..Len(results) : RecordedError(results[i])

AggregateStatus(results) ==
    IF ~has_errors(results) THEN "completed" ELSE "completed_with_errors"

\* aggregate_results, then the return of execute_task
AggregateResults ==
    /\ pc = "aggregate_results"
    /\ final_result' = FinalResult(step_results)
    /\ status' = AggregateStatus(step_results)
    /\ published' = Append(published, Event("task.completed", Len(step_results), 0))
    /\ publish("task.completed")
    /\ pc' = "done"
    /\ UNCHANGED <<mcp_vars, exec_vars, task_type, plan, current_step, selected_agent_id, skill_name,
                   step_results, agent_selection_log, error, agents, next_agent_id,
                   planner_outcome, loop_vars>>

\* the dictionary execute_task returns
ExecuteTaskResult ==
    [status |-> status, result |-> final_result, error |-> error,
     steps |-> step_results, plan |-> plan,
     agent_selection_log |-> agent_selection_log]

Next ==
    \/ \E skills \in AgentSkillSets : SeedAgent(skills)
    \/ RegisterAgent
    \/ \E i \in 1..NumAgents : ConnectToAgent(i)
    \/ \E i \in 1..NumAgents : RemoveAgent(i)
    \/ \E tt \in TaskTypes : ExecuteTask(tt)
    \/ \E outcome \in PlannerOutcomes : AnalyzeTask(outcome)
    \/ SelectAgent
    \/ SelectAgentRaises
    \/ \E result_text \in ResultTexts : ExecuteSkill(result_text)
    \/ ExecuteSkillReturn
    \/ ExecuteSkillRaises
    \/ AggregateResults

Spec == Init /\ [][Next]_vars

\* ------------------------------------------------------ event bus lifecycle
\* start(): nothing on a running bus, else one new _process_events task
Start ==
    /\ ~running
    /\ Len(tasks) < MaxTasks
    /\ running' = TRUE
    /\ tasks' = Append(tasks, NewTask)
    /\ processor_task' = Len(tasks) + 1
    /\ UNCHANGED <<mcp_vars, exec_vars, orch_vars, table_vars, pub_vars, handlers, stop_calls, invoked>>

RECURSIVE SumTo(_, _)
SumTo(f, n) == IF n = 0 THEN 0 ELSE f[n] + SumTo(f, n - 1)

SuspendedStops == SumTo(stop_calls, MaxTasks)

\* stop() up to its await: the flag is cleared and the task the bus holds is
\* cancelled; awaiting a task that has ended does not suspend
Stop ==
    /\ running' = FALSE
    /\ IF processor_task = NoTask
       THEN UNCHANGED <<processor_task, tasks, stop_calls>>
       ELSE IF tasks[processor_task].state = "ended"
       THEN /\ processor_task' = NoTask
            /\ UNCHANGED <<tasks, stop_calls>>
       ELSE /\ SuspendedStops < MaxStopCalls
            /\ tasks' = [tasks EXCEPT ![processor_task].state = "cancelling"]
            /\ stop_calls' = [stop_calls EXCEPT ![processor_task] = @ + 1]
            /\ UNCHANGED processor_task
    /\ UNCHANGED <<mcp_vars, exec_vars, orch_vars, table_vars, pub_vars, handlers, invoked>>

\* stop() after its await: the awaited task has ended
StopResumes(t) ==
    /\ stop_calls[t] > 0
    /\ tasks[t].state = "ended"
    /\ processor_task' = NoTask
    /\ stop_calls' = [stop_calls EXCEPT ![t] = @ - 1]
    /\ UNCHANGED <<mcp_vars, exec_vars, orch_vars, table_vars, pub_vars, handlers, running, tasks, invoked>>

Invocation(handler, event, task, i) ==
    [handler |-> handler, event_id |-> event.event_id, type |-> event.type,
     task |-> task, call |-> i, outcome |-> "running"]

\* the outcome of call i of the task's dispatch, written to its invocation
Conclude(log, task, event, i, outcome) ==
    [k \in 1..Len(log) |->
        IF log[k].task = task /\ log[k].event_id = event.event_id /\ log[k].call = i
           /\ log[k].outcome = "running"
        THEN [log[k] EXCEPT !.outcome = outcome]
        ELSE log[k]]

\* a cancelled task ends at its next step, and its unfinished calls with it
Cancelled(t) ==
    /\ t \in 1..Len(tasks)
    /\ tasks[t].state = "cancelling"
    /\ tasks' = [tasks EXCEPT ![t].state = "ended",
                              ![t].calls = [i \in 1..Len(@) |->
                                  IF Finished(@[i]) THEN @[i]
                                  ELSE [@[i] EXCEPT !.phase = "cancelled"]]]
    /\ invoked' = [k \in 1..Len(invoked) |->
                       IF invoked[k].task = t /\ invoked[k].outcome = "running"
                       THEN [invoked[k] EXCEPT !.outcome = "cancelled"]
                       ELSE invoked[k]]
    /\ UNCHANGED <<mcp_vars, exec_vars, orch_vars, table_vars, pub_vars, handlers, running,
                   processor_task, stop_calls>>

\* ---------------------------------------------------- subscribe and publish
RECURSIVE TotalLen(_, _)
TotalLen(hs, keys) ==
    IF keys = {} THEN 0
    ELSE LET key == CHOOSE k \in keys : TRUE
         IN Len(hs[key]) + TotalLen(hs, keys \ {key})

Subscriptions == TotalLen(handlers, Topics)

Subscribe(topic, handler) ==
    /\ Subscriptions < MaxSubscriptions
    /\ handlers' = [handlers EXCEPT ![topic] = Append(@, handler)]
    /\ UNCHANGED <<mcp_vars, exec_vars, orch_vars, table_vars, pub_vars, running, processor_task, tasks,
                   stop_calls, invoked>>

Unsubscribe(topic, handler) ==
    /\ handlers' = [handlers EXCEPT ![topic] =
                       IF handler \in Range(@) THEN Remove(@, handler) ELSE @]
    /\ UNCHANGED <<mcp_vars, exec_vars, orch_vars, table_vars, pub_vars, running, processor_task, tasks,
                   stop_calls, invoked>>

Publish(type) ==
    /\ next_event_id <= MaxPublish
    /\ publish(type)
    /\ UNCHANGED <<mcp_vars, exec_vars, orch_vars, table_vars, loop_vars>>

\* ---------------------------------------------------------- _process_events
WhileRunning_once == "ended"

\* the test of the while loop
WhileRunning == IF running THEN "waiting" ELSE "ended"

\* the first step of the task
ProcessEventsStarts(t) ==
    /\ t \in 1..Len(tasks)
    /\ tasks[t].state = "created"
    /\ tasks' = [tasks EXCEPT ![t].state = WhileRunning]
    /\ UNCHANGED <<mcp_vars, exec_vars, orch_vars, table_vars, pub_vars, handlers, running,
                   processor_task, stop_calls, invoked>>

\* queue.get() returns an event and _dispatch gathers one call per handler;
\* with no handler _dispatch returns at once and the loop test follows
ProcessEventsGets(t) ==
    /\ t \in 1..Len(tasks)
    /\ tasks[t].state = "waiting"
    /\ queue # <<>>
    /\ LET event == Head(queue)
           hs == MatchingHandlers(handlers, EventType[event.type])
       IN tasks' = [tasks EXCEPT ![t] =
              IF hs = <<>>
              THEN [state |-> WhileRunning, event |-> event, calls |-> <<>>]
              ELSE [state |-> "dispatching", event |-> event,
                    calls |-> [i \in 1..Len(hs) |-> Call(hs[i])]]]
    /\ queue' = Tail(queue)
    /\ UNCHANGED <<mcp_vars, exec_vars, orch_vars, table_vars, next_event_id, handlers, running,
                   processor_task, stop_calls, invoked>>

\* wait_for times out on an empty queue and the loop test fails
ProcessEventsTimesOut(t) ==
    /\ t \in 1..Len(tasks)
    /\ tasks[t].state = "waiting"
    /\ queue = <<>>
    /\ ~running
    /\ tasks' = [tasks EXCEPT ![t].state = "ended"]
    /\ UNCHANGED <<mcp_vars, exec_vars, orch_vars, table_vars, pub_vars, handlers, running,
                   processor_task, stop_calls, invoked>>

Startable_unlessRaised(calls, i) ==
    /\ calls[i].phase = "scheduled"
    /\ \A j \in 1..(i - 1) : calls[j].phase \notin {"scheduled", "raised"}

\* the calls gather created start in list order
Startable(calls, i) ==
    /\ calls[i].phase = "scheduled"
    /\ \A j \in 1..(i - 1) : calls[j].phase # "scheduled"

\* _safe_call invokes its handler
SafeCallStarts(t, i) ==
    /\ t \in 1..Len(tasks)
    /\ tasks[t].state = "dispatching"
    /\ i \in 1..Len(tasks[t].calls)
    /\ Startable(tasks[t].calls, i)
    /\ tasks' = [tasks EXCEPT ![t].calls[i].phase = "running"]
    /\ invoked' = Append(invoked, Invocation(tasks[t].calls[i].handler, tasks[t].event, t, i))
    /\ UNCHANGED <<mcp_vars, exec_vars, orch_vars, table_vars, pub_vars, handlers, running,
                   processor_task, stop_calls>>

\* the handler returns, or raises and _safe_call catches and prints
SafeCallEnds(t, i, raises) ==
    /\ t \in 1..Len(tasks)
    /\ tasks[t].state = "dispatching"
    /\ i \in 1..Len(tasks[t].calls)
    /\ tasks[t].calls[i].phase = "running"
    /\ tasks' = [tasks EXCEPT ![t].calls[i].phase = IF raises THEN "raised" ELSE "returned"]
    /\ invoked' = Conclude(invoked, t, tasks[t].event, i,
                           IF raises THEN "raised" ELSE "returned")
    /\ UNCHANGED <<mcp_vars, exec_vars, orch_vars, table_vars, pub_vars, handlers, running,
                   processor_task, stop_calls>>

\* gather completes, _dispatch returns and the loop test follows
DispatchReturns(t) ==
    /\ t \in 1..Len(tasks)
    /\ tasks[t].state = "dispatching"
    /\ \A i \in 1..Len(tasks[t].calls) : Finished(tasks[t].calls[i])
    /\ tasks' = [tasks EXCEPT ![t].state = WhileRunning]
    /\ UNCHANGED <<mcp_vars, exec_vars, orch_vars, table_vars, pub_vars, handlers, running,
                   processor_task, stop_calls, invoked>>

\* One loop, handlers on the global wildcard, events of one kind.
NextDispatch ==
    \/ Start
    \/ \E handler \in HandlerIds : Subscribe(<<"*">>, handler)
    \/ Publish("agent.connected")
    \/ \E t \in 1..MaxTasks : ProcessEventsStarts(t)
    \/ \E t \in 1..MaxTasks : ProcessEventsGets(t)
    \/ \E t \in 1..MaxTasks, i \in 1..MaxSubscriptions : SafeCallStarts(t, i)
    \/ \E t \in 1..MaxTasks, i \in 1..MaxSubscriptions, raises \in BOOLEAN :
           SafeCallEnds(t, i, raises)
    \/ \E t \in 1..MaxTasks : DispatchReturns(t)

SpecDispatch == Init /\ [][NextDispatch]_vars

\* Subscriptions under every topic, events of every producer kind.
NextTopics ==
    \/ Start
    \/ \E topic \in Topics, handler \in HandlerIds : Subscribe(topic, handler)
    \/ \E type \in ProducerTypes : next_event_id <= MaxTopicEvents /\ Publish(type)
    \/ \E t \in 1..MaxTasks : ProcessEventsStarts(t)
    \/ \E t \in 1..MaxTasks : ProcessEventsGets(t)
    \/ \E t \in 1..MaxTasks, i \in 1..MaxSubscriptions : SafeCallStarts(t, i)
    \/ \E t \in 1..MaxTasks, i \in 1..MaxSubscriptions : SafeCallEnds(t, i, FALSE)
    \/ \E t \in 1..MaxTasks : DispatchReturns(t)

SpecTopics == Init /\ [][NextTopics]_vars

\* One handler under one exact topic, a queue that never overflows, and a loop
\* that the event loop keeps scheduling; handlers are taken to finish.
NextDelivery ==
    \/ Start
    \/ handlers[EventType["agent.connected"]] = <<>>
           /\ Subscribe(EventType["agent.connected"], 1)
    \/ \E type \in {"agent.connected", "task.created"} : ~Full(queue) /\ Publish(type)
    \/ \E t \in 1..MaxTasks : ProcessEventsStarts(t)
    \/ \E t \in 1..MaxTasks : ProcessEventsGets(t)
    \/ \E t \in 1..MaxTasks, i \in 1..MaxSubscriptions : SafeCallStarts(t, i)
    \/ \E t \in 1..MaxTasks, i \in 1..MaxSubscriptions, raises \in BOOLEAN :
           SafeCallEnds(t, i, raises)
    \/ \E t \in 1..MaxTasks : DispatchReturns(t)

LoopStep ==
    \E t \in 1..MaxTasks :
        \/ ProcessEventsStarts(t)
        \/ ProcessEventsGets(t)
        \/ DispatchReturns(t)
        \/ \E i \in 1..MaxSubscriptions :
               SafeCallStarts(t, i) \/ \E raises \in BOOLEAN : SafeCallEnds(t, i, raises)

SpecDelivery == Init /\ [][NextDelivery]_vars /\ WF_vars(LoopStep)

\* One task execution, with its agents in place before it starts, on a bus that
\* is stopped or running, with or without a handler, which may be slow or raise.
Response == "skill output"

NextTask ==
    \/ \E skills \in AgentSkillSets : pc = "idle" /\ SeedAgent(skills)
    \/ \E tt \in TaskTypes : ExecuteTask(tt)
    \/ AnalyzeTask(CompletionError)
    \/ SelectAgent
    \/ ExecuteSkill(Response)
    \/ ExecuteSkillReturn
    \/ AggregateResults
    \/ Start
    \/ handlers[<<"*">>] = <<>> /\ Subscribe(<<"*">>, 1)
    \/ \E t \in 1..MaxTasks : ProcessEventsStarts(t)
    \/ \E t \in 1..MaxTasks : ProcessEventsGets(t)
    \/ \E t \in 1..MaxTasks, i \in 1..MaxSubscriptions : SafeCallStarts(t, i)
    \/ \E t \in 1..MaxTasks, i \in 1..MaxSubscriptions, raises \in BOOLEAN :
           SafeCallEnds(t, i, raises)
    \/ \E t \in 1..MaxTasks : DispatchReturns(t)

SpecTask == Init /\ [][NextTask]_vars

\* One task execution in which every planner, lookup and skill call returns,
\* for plans of every length, while rows of the agents table come and go.
\* LangGraph runs the next node as soon as a node has returned, so a node
\* that is due is run.
ExecutionOutcomes ==
    {CompletionError}
        \cup {JsonList([i \in 1..k |-> JsonStr("generate_code")]) : k \in 0..MaxPlanLen}

NodeStep ==
    \/ \E outcome \in ExecutionOutcomes : AnalyzeTask(outcome)
    \/ SelectAgent
    \/ ExecuteSkill(Response)
    \/ ExecuteSkillReturn
    \/ AggregateResults

NextExecution ==
    \/ \E skills \in AgentSkillSets : SeedAgent(skills)
    \/ \E i \in 1..NumAgents : RemoveAgent(i)
    \/ \E tt \in TaskTypes : ExecuteTask(tt)
    \/ NodeStep

SpecExecution == Init /\ [][NextExecution]_vars /\ WF_vars(NodeStep)

\* Every interleaving of start() and stop() around one subscribed handler.
NextLifecycle ==
    \/ Start
    \/ Stop
    \/ \E t \in 1..MaxTasks : StopResumes(t)
    \/ Subscribe(<<"*">>, 1)
    \/ Unsubscribe(<<"*">>, 1)
    \/ Publish("agent.connected")
    \/ \E t \in 1..MaxTasks : ProcessEventsStarts(t)
    \/ \E t \in 1..MaxTasks : ProcessEventsGets(t)
    \/ \E t \in 1..MaxTasks : ProcessEventsTimesOut(t)
    \/ \E t \in 1..MaxTasks, i \in 1..MaxSubscriptions : SafeCallStarts(t, i)
    \/ \E t \in 1..MaxTasks, i \in 1..MaxSubscriptions : SafeCallEnds(t, i, FALSE)
    \/ \E t \in 1..MaxTasks : DispatchReturns(t)
    \/ \E t \in 1..MaxTasks : Cancelled(t)

SpecLifecycle == Init /\ [][NextLifecycle]_vars

\* ------------------------------------------------ the MCP client registry
\* MCPClientManager keeps one AgentConnection per agent id behind an
\* asyncio.Lock. Every call on the registry is a coroutine: it runs without
\* interruption up to its next await on the network, where other calls can
\* run. A call is a record in ops with its position pc; the operators below
\* take the registry state s and return the state at the call's next
\* suspension or at its return.
AgentIds == {"a", "b"}

Endpoints == {"ep1", "ep2"}

ToolNames == {"search"}

None == 0

\* AgentConnection as constructed: pending, no session, no client
AgentConnection(agent_id, mcp_endpoint) ==
    [agent_id |-> agent_id, mcp_endpoint |-> mcp_endpoint, status |-> "pending",
     session |-> None, http_client |-> None, tools |-> {},
     connected_at |-> FALSE, last_activity |-> FALSE, discovered |-> FALSE]

\* the frame of one call on the registry
Operation(kind, agent_id, arg, connect) ==
    [kind |-> kind, agent_id |-> agent_id, arg |-> arg, connect |-> connect,
     pc |-> "called", conn |-> None, client |-> None, session |-> None,
     ret |-> "pending", connected |-> "pending", published |-> <<>>,
     transport |-> FALSE, iter |-> 0, size |-> 0, left |-> 0,
     discovery_failed |-> FALSE, health |-> <<>>]

\* the values of the dict in insertion order; a deleted entry leaves a hole
Values(entries) == SelectSeq(entries, LAMBDA e : e # None)

Pop(entries, c) == [i \in DOMAIN entries |-> IF entries[i] = c THEN None ELSE entries[i]]

get_connection(s, agent_id) ==
    LET found == SelectSeq(Values(s.connections),
                           LAMBDA c : s.conns[c].agent_id = agent_id)
    IN  IF found = <<>> THEN None ELSE found[1]

get_online_agents(s) ==
    SelectSeq(Values(s.connections), LAMBDA c : s.conns[c].status = "online")

get_agents_with_tool_anyStatus(s, tool_name) ==
    SelectSeq(Values(s.connections), LAMBDA c : tool_name \in s.conns[c].tools)

get_agents_with_tool(s, tool_name) ==
    SelectSeq(get_online_agents(s), LAMBDA c : tool_name \in s.conns[c].tools)

State ==
    [connections |-> connections, conns |-> conns, lock |-> lock, ops |-> ops,
     sessions |-> sessions, clients |-> clients, events |-> <<>>]

RECURSIVE PublishAll(_, _, _)
PublishAll(q, event_id, types) ==
    IF types = <<>> THEN q
    ELSE PublishAll(PublishQueue(q, QueuedEvent(event_id, Head(types))),
                    event_id + 1, Tail(types))

\* the state a call leaves at its suspension, with the events it published
Commit(s) ==
    /\ connections' = s.connections
    /\ conns' = s.conns
    /\ lock' = s.lock
    /\ ops' = s.ops
    /\ sessions' = s.sessions
    /\ clients' = s.clients
    /\ queue' = PublishAll(queue, next_event_id, s.events)
    /\ next_event_id' = next_event_id + Len(s.events)

Emit(s, o, type) ==
    [s EXCEPT !.events = Append(@, type), !.ops[o].published = Append(@, type)]

Return(s, o, ret) == [s EXCEPT !.ops[o].ret = ret, !.ops[o].pc = "done"]

\* ------------------------------------------------ AgentConnection.connect
connect_returns(s, o, ok) ==
    LET kind == s.ops[o].kind
        r == [s EXCEPT !.ops[o].connected = IF ok THEN "true" ELSE "false"]
    IN  IF kind = "register_agent" THEN Return(r, o, "connection")
        ELSE IF kind = "refresh_capabilities"
             THEN Return(r, o, IF ok THEN "capabilities" ELSE "none")
        ELSE Return(r, o, IF ok THEN "true" ELSE "false")

\* a new HTTP client replaces the one held, then the transport is opened
connect(s, o, c) ==
    [s EXCEPT !.conns[c].http_client = o,
              !.clients = @ \cup {o},
              !.ops[o].conn = c,
              !.ops[o].pc = "opening"]

\* both context managers are entered and the session is stored
connect_opened(s, o) ==
    [s EXCEPT !.sessions = @ \cup {o},
              !.conns[s.ops[o].conn].session = o,
              !.ops[o].pc = "initializing"]

connect_initialized(s, o) == [s EXCEPT !.ops[o].pc = "discovering"]

\* without a session nothing is listed; a listing that raises leaves the
\* empty list and the exception goes no further
_discover_capabilities(s, c, tools, raises) ==
    IF s.conns[c].session = None THEN s
    ELSE IF raises THEN [s EXCEPT !.conns[c].tools = {}]
    ELSE [s EXCEPT !.conns[c].tools = tools, !.conns[c].discovered = TRUE]

\* discovery ends, the connection is set online and the event published;
\* the return then leaves the two context managers
connect_discovered(s, o, tools, raises) ==
    LET c == s.ops[o].conn
        d == _discover_capabilities(s, c, tools, raises)
    IN  [Emit(d, o, "agent.connected")
            EXCEPT !.ops[o].discovery_failed = raises /\ s.conns[c].session # None,
                   !.conns[c].status = "online",
                   !.conns[c].connected_at = TRUE,
                   !.conns[c].last_activity = TRUE,
                   !.ops[o].pc = "closing"]

connect_closed(s, o) ==
    connect_returns([s EXCEPT !.sessions = @ \ {o}], o, TRUE)

connect_failed_statusKept(s, o) ==
    connect_returns(Emit([s EXCEPT !.sessions = @ \ {o}], o, "system.error"), o, FALSE)

\* an exception inside the try block: the context managers entered so far
\* are left, the connection is set to error and the event published
connect_failed(s, o) ==
    LET c == s.ops[o].conn
    IN  connect_returns(
            Emit([s EXCEPT !.sessions = @ \ {o}, !.conns[c].status = "error"],
                 o, "system.error"),
            o, FALSE)

\* --------------------------------- AgentConnection.disconnect and close_all
RECURSIVE disconnect(_, _, _)
RECURSIVE close_all_next(_, _)

disconnect_returns(s, o) ==
    LET kind == s.ops[o].kind
    IN  IF kind = "unregister_agent"
        THEN Return([s EXCEPT !.lock.holder = None], o, "none")
        ELSE IF kind = "reconnect_agent" THEN connect(s, o, s.ops[o].conn)
        ELSE IF kind = "close_all" THEN close_all_next(s, o)
        ELSE Return(s, o, "none")

\* lines 118-127: session dropped, offline, agent.disconnected published
disconnect_finished(s, o, c) ==
    disconnect_returns(
        [Emit(s, o, "agent.disconnected")
            EXCEPT !.conns[c].session = None,
                   !.conns[c].status = "offline",
                   !.ops[o].conn = c],
        o)

\* the client held is closed, which suspends the call; without a client the
\* call runs to its end
disconnect(s, o, c) ==
    IF s.conns[c].http_client # None
    THEN [s EXCEPT !.ops[o].conn = c,
                   !.ops[o].client = s.conns[c].http_client,
                   !.ops[o].pc = "aclose"]
    ELSE disconnect_finished(s, o, c)

disconnect_closed(s, o) ==
    LET c == s.ops[o].conn
    IN  disconnect_finished(
            [s EXCEPT !.clients = @ \ {s.ops[o].client},
                      !.conns[c].http_client = None],
            o, c)

\* the next step of the iteration over _connections.values(): the dict
\* iterator raises when the dict changed size, or when it finds an entry
\* after it has yielded as many as the dict had at the start
close_all_next(s, o) ==
    LET op == s.ops[o]
        rest == {i \in DOMAIN s.connections : i > op.iter /\ s.connections[i] # None}
    IN  IF Len(Values(s.connections)) # op.size \/ (rest # {} /\ op.left = 0)
        THEN Return(s, o, "raised")
        ELSE IF rest = {}
        THEN Return([s EXCEPT !.connections = <<>>], o, "none")
        ELSE LET i == CHOOSE j \in rest : \A k \in rest : j <= k
             IN  disconnect([s EXCEPT !.ops[o].iter = i, !.ops[o].left = @ - 1],
                            o, s.connections[i])

\* ------------------------------------------------ AgentConnection.call_tool
AgentConnection_call_tool(s, o, c) ==
    IF s.conns[c].session = None THEN Return(s, o, "raised")
    ELSE [Emit(s, o, "mcp.tool_called")
            EXCEPT !.ops[o].conn = c,
                   !.ops[o].session = s.conns[c].session,
                   !.ops[o].transport = TRUE,
                   !.ops[o].pc = "calling"]

call_tool_returned(s, o, ok) ==
    LET c == s.ops[o].conn
    IN  IF ok
        THEN Return(Emit([s EXCEPT !.conns[c].last_activity = TRUE], o, "mcp.tool_result"),
                    o, "success")
        ELSE Return(Emit(s, o, "mcp.tool_result"), o, "failed")

\* --------------------------------------------------------- MCPClientManager
register_agent_unchecked(s, o) ==
    LET op == s.ops[o]
        c == Len(s.conns) + 1
        r == [s EXCEPT !.conns = Append(@, AgentConnection(op.agent_id, op.arg)),
                       !.connections = Append(@, c),
                       !.ops[o].conn = c,
                       !.lock.holder = None]
    IN  IF op.connect THEN connect(r, o, c) ELSE Return(r, o, "connection")

\* register_agent with the lock held, and what follows its release
register_agent_locked(s, o) ==
    LET op == s.ops[o]
        existing == get_connection(s, op.agent_id)
        c == Len(s.conns) + 1
        r == [s EXCEPT !.conns = Append(@, AgentConnection(op.agent_id, op.arg)),
                       !.connections = Append(@, c),
                       !.ops[o].conn = c,
                       !.lock.holder = None]
    IN  IF existing # None
        THEN Return([s EXCEPT !.ops[o].conn = existing, !.lock.holder = None],
                    o, "connection")
        ELSE IF op.connect THEN connect(r, o, c)
        ELSE Return(r, o, "connection")

unregister_agent_locked(s, o) ==
    LET c == get_connection(s, s.ops[o].agent_id)
    IN  IF c = None THEN Return([s EXCEPT !.lock.holder = None], o, "none")
        ELSE disconnect([s EXCEPT !.connections = Pop(@, c)], o, c)

locked(s, o) ==
    IF s.ops[o].kind = "register_agent" THEN register_agent_locked(s, o)
    ELSE unregister_agent_locked(s, o)

\* asyncio.Lock.acquire: taken at once when free and nobody waits, else the
\* call queues behind the waiters
acquire(s, o) ==
    IF s.lock.holder = None /\ s.lock.waiters = <<>>
    THEN locked([s EXCEPT !.lock.holder = o], o)
    ELSE [s EXCEPT !.lock.waiters = Append(@, o), !.ops[o].pc = "lock"]

Invoke(op) == [State EXCEPT !.ops = Append(@, op)]

Calling == Len(ops) + 1

register_agent(agent_id, mcp_endpoint, connect_now) ==
    /\ Len(ops) < MaxOps
    /\ Commit(acquire(Invoke(Operation("register_agent", agent_id, mcp_endpoint, connect_now)),
                      Calling))
    /\ UNCHANGED <<exec_vars, orch_vars, table_vars, loop_vars>>

unregister_agent(agent_id) ==
    /\ Len(ops) < MaxOps
    /\ Commit(acquire(Invoke(Operation("unregister_agent", agent_id, "", FALSE)), Calling))
    /\ UNCHANGED <<exec_vars, orch_vars, table_vars, loop_vars>>

\* the first waiter resumes once the lock was released
LockGranted(o) ==
    /\ o \in DOMAIN ops
    /\ ops[o].pc = "lock"
    /\ lock.holder = None
    /\ lock.waiters # <<>>
    /\ Head(lock.waiters) = o
    /\ Commit(locked([State EXCEPT !.lock = [holder |-> o, waiters |-> Tail(lock.waiters)]], o))
    /\ UNCHANGED <<exec_vars, orch_vars, table_vars, loop_vars>>

connect_agent(agent_id) ==
    /\ Len(ops) < MaxOps
    /\ LET s == Invoke(Operation("connect_agent", agent_id, "", FALSE))
           c == get_connection(s, agent_id)
       IN  Commit(IF c = None THEN Return(s, Calling, "false") ELSE connect(s, Calling, c))
    /\ UNCHANGED <<exec_vars, orch_vars, table_vars, loop_vars>>

disconnect_agent(agent_id) ==
    /\ Len(ops) < MaxOps
    /\ LET s == Invoke(Operation("disconnect_agent", agent_id, "", FALSE))
           c == get_connection(s, agent_id)
       IN  Commit(IF c = None THEN Return(s, Calling, "none") ELSE disconnect(s, Calling, c))
    /\ UNCHANGED <<exec_vars, orch_vars, table_vars, loop_vars>>

reconnect_agent(agent_id) ==
    /\ Len(ops) < MaxOps
    /\ LET s == Invoke(Operation("reconnect_agent", agent_id, "", FALSE))
           c == get_connection(s, agent_id)
       IN  Commit(IF c = None THEN Return(s, Calling, "false") ELSE disconnect(s, Calling, c))
    /\ UNCHANGED <<exec_vars, orch_vars, table_vars, loop_vars>>

refresh_capabilities(agent_id) ==
    /\ Len(ops) < MaxOps
    /\ LET s == Invoke(Operation("refresh_capabilities", agent_id, "", FALSE))
           c == get_connection(s, agent_id)
       IN  Commit(IF c = None THEN Return(s, Calling, "none") ELSE connect(s, Calling, c))
    /\ UNCHANGED <<exec_vars, orch_vars, table_vars, loop_vars>>

call_tool_unchecked(s, o) ==
    LET c == get_connection(s, s.ops[o].agent_id)
    IN  IF c = None THEN Return(s, o, "not_found")
        ELSE AgentConnection_call_tool(s, o, c)

\* MCPClientManager.call_tool after the call was made
call_tool_called(s, o) ==
    LET c == get_connection(s, s.ops[o].agent_id)
    IN  IF c = None THEN Return(s, o, "not_found")
        ELSE IF s.conns[c].status # "online" THEN Return(s, o, "not_online")
        ELSE AgentConnection_call_tool(s, o, c)

call_tool(agent_id, tool_name) ==
    /\ Len(ops) < MaxOps
    /\ Commit(call_tool_called(Invoke(Operation("call_tool", agent_id, tool_name, FALSE)),
                               Calling))
    /\ UNCHANGED <<exec_vars, orch_vars, table_vars, loop_vars>>

call_tool_on_any(tool_name) ==
    /\ Len(ops) < MaxOps
    /\ LET s == Invoke(Operation("call_tool_on_any", "", tool_name, FALSE))
           found == get_agents_with_tool(s, tool_name)
       IN  Commit(IF found = <<>> THEN Return(s, Calling, "no_agent")
                  ELSE AgentConnection_call_tool(s, Calling, found[1]))
    /\ UNCHANGED <<exec_vars, orch_vars, table_vars, loop_vars>>

close_all ==
    /\ Len(ops) < MaxOps
    /\ LET s == Invoke(Operation("close_all", "", "", FALSE))
           used == Len(Values(connections))
       IN  Commit(close_all_next([s EXCEPT !.ops[Calling].size = used,
                                           !.ops[Calling].left = used],
                                 Calling))
    /\ UNCHANGED <<exec_vars, orch_vars, table_vars, loop_vars>>

\* AgentConnection.call_tool called on a connection object the caller holds
connection_call_tool(c, tool_name) ==
    /\ Len(ops) < MaxOps
    /\ c \in DOMAIN conns
    /\ Commit(AgentConnection_call_tool(
                  Invoke(Operation("connection.call_tool", conns[c].agent_id, tool_name, FALSE)),
                  Calling, c))
    /\ UNCHANGED <<exec_vars, orch_vars, table_vars, loop_vars>>

Count(s, statuses) ==
    Len(SelectSeq(Values(s.connections), LAMBDA c : s.conns[c].status \in statuses))

\* the counts health_check returns: what is neither online nor offline is
\* counted as error
HealthSummary(s) ==
    [total_agents |-> Len(Values(s.connections)),
     online |-> Count(s, {"online"}),
     offline |-> Count(s, {"offline"}),
     error |-> Count(s, {"pending", "busy", "error"})]

health_check ==
    /\ Len(ops) < MaxOps
    /\ LET s == Invoke(Operation("health_check", "", "", FALSE))
       IN  Commit(Return([s EXCEPT !.ops[Calling].health = HealthSummary(s)],
                         Calling, "summary"))
    /\ UNCHANGED <<exec_vars, orch_vars, table_vars, loop_vars>>

\* ------------------------------------------------- the calls' resumptions
At(o, position) == o \in DOMAIN ops /\ ops[o].pc = position

ConnectOpens(o) ==
    /\ At(o, "opening")
    /\ Commit(connect_opened(State, o))
    /\ UNCHANGED <<exec_vars, orch_vars, table_vars, loop_vars>>

ConnectInitializes(o) ==
    /\ At(o, "initializing")
    /\ Commit(connect_initialized(State, o))
    /\ UNCHANGED <<exec_vars, orch_vars, table_vars, loop_vars>>

ConnectDiscovers(o, tools, raises) ==
    /\ At(o, "discovering")
    /\ raises => tools = {}
    /\ Commit(connect_discovered(State, o, tools, raises))
    /\ UNCHANGED <<exec_vars, orch_vars, table_vars, loop_vars>>

ConnectCloses(o) ==
    /\ At(o, "closing")
    /\ Commit(connect_closed(State, o))
    /\ UNCHANGED <<exec_vars, orch_vars, table_vars, loop_vars>>

ConnectFails(o) ==
    /\ \/ At(o, "opening")
       \/ At(o, "initializing")
       \/ At(o, "closing")
    /\ Commit(connect_failed(State, o))
    /\ UNCHANGED <<exec_vars, orch_vars, table_vars, loop_vars>>

DisconnectCloses(o) ==
    /\ At(o, "aclose")
    /\ Commit(disconnect_closed(State, o))
    /\ UNCHANGED <<exec_vars, orch_vars, table_vars, loop_vars>>

\* the tool call ends: a closed session can only fail it
CallToolReturns(o, ok) ==
    /\ At(o, "calling")
    /\ ok => ops[o].session \in sessions
    /\ Commit(call_tool_returned(State, o, ok))
    /\ UNCHANGED <<exec_vars, orch_vars, table_vars, loop_vars>>

\* ------------------------------------------- specifications of the registry
\* no call is in flight: the next call finds every earlier one returned
Idle == \A o \in DOMAIN ops : ops[o].pc = "done"

Ops == 1..MaxOps

ConnectStep ==
    \/ \E o \in Ops : ConnectOpens(o)
    \/ \E o \in Ops : ConnectInitializes(o)
    \/ \E o \in Ops, tools \in SUBSET ToolNames, raises \in BOOLEAN :
           ConnectDiscovers(o, tools, raises)
    \/ \E o \in Ops : ConnectCloses(o)
    \/ \E o \in Ops : ConnectFails(o)

\* one connection, its calls made one after the other
NextConnection ==
    \/ Idle /\ \E connect_now \in BOOLEAN : register_agent("a", "ep1", connect_now)
    \/ Idle /\ connect_agent("a")
    \/ Idle /\ disconnect_agent("a")
    \/ Idle /\ reconnect_agent("a")
    \/ Idle /\ refresh_capabilities("a")
    \/ Idle /\ connection_call_tool(1, "search")
    \/ Idle /\ health_check
    \/ ConnectStep
    \/ \E o \in Ops : DisconnectCloses(o)
    \/ \E o \in Ops : CallToolReturns(o, FALSE)

SpecConnection == Init /\ [][NextConnection]_vars

\* register calls only, interleaved at the awaits of connect
NextRegister ==
    \/ \E agent_id \in AgentIds, mcp_endpoint \in Endpoints, connect_now \in BOOLEAN :
           register_agent(agent_id, mcp_endpoint, connect_now)
    \/ ConnectStep

SpecRegister == Init /\ [][NextRegister]_vars

\* agents registered and connected, tools called on them
NextCalls ==
    \/ \E agent_id \in AgentIds, connect_now \in BOOLEAN :
           register_agent(agent_id, "ep1", connect_now)
    \/ \E agent_id \in AgentIds : call_tool(agent_id, "search")
    \/ call_tool_on_any("search")
    \/ ConnectStep
    \/ \E o \in Ops, ok \in BOOLEAN : CallToolReturns(o, ok)

SpecCalls == Init /\ [][NextCalls]_vars

\* the registry written by register, unregister and close_all at once
NextRegistry ==
    \/ \E agent_id \in AgentIds : register_agent(agent_id, "ep1", TRUE)
    \/ \E agent_id \in AgentIds : unregister_agent(agent_id)
    \/ close_all
    \/ \E o \in Ops : LockGranted(o)
    \/ ConnectStep
    \/ \E o \in Ops : DisconnectCloses(o)

SpecRegistry == Init /\ [][NextRegistry]_vars

\* ---------------------------------------------------- concurrent executions
\* what the inference service answers to the steps of each execution
ResponseOf == [e \in Executions |->
                  IF e = "first" THEN "skill output" ELSE "Error: skill failed"]

\* the planner's outcomes: it fails, or replies with a plan of one step
ConcurrentOutcomes == {CompletionError, JsonList(<<JsonStr("generate_code")>>)}

ListObject(site, items) == [site |-> site, items |-> items]

\* a list display, a list comprehension or list(...): a new object
Allocate(h, site, items) ==
    [heap |-> Append(h, ListObject(site, items)), ref |-> Len(h) + 1]

\* initial_state of execute_task, handed to the compiled graph
initial_state(h, tt) ==
    LET p == Allocate(h, <<"initial_state.plan">>, <<>>)
        r == Allocate(p.heap, <<"initial_state.step_results">>, <<>>)
        l == Allocate(r.heap, <<"initial_state.agent_selection_log">>, <<>>)
    IN  [heap |-> l.heap,
         state |-> [NotStarted EXCEPT !.pc = "analyze_task", !.task_type = tt,
                                      !.plan = p.ref, !.step_results = r.ref,
                                      !.agent_selection_log = l.ref],
         events |-> <<>>]

analyze_task_moduleTable(h, st, outcome) ==
    LET made == {x \in 1..Len(h) : h[x].site = <<"task_to_skills", st.task_type>>}
        p == IF IsException(outcome) /\ made # {}
             THEN [heap |-> h, ref |-> CHOOSE x \in made : TRUE]
             ELSE Allocate(h, IF IsException(outcome)
                              THEN <<"task_to_skills", st.task_type>> ELSE <<"plan">>,
                           AnalyzePlan(st.task_type, outcome))
        r == Allocate(p.heap, <<"step_results">>, <<>>)
    IN  [heap |-> r.heap,
         state |-> [st EXCEPT !.planner_outcome = outcome, !.plan = p.ref,
                              !.current_step = 0, !.step_results = r.ref,
                              !.status = "planning", !.pc = "select_agent"],
         events |-> <<"task.started">>]

\* analyze_task: the plan is a list built by this call, in the try block or
\* from the table the except block builds, and step_results is a new list
analyze_task(h, st, outcome) ==
    LET p == Allocate(h, IF IsException(outcome)
                         THEN <<"task_to_skills", st.task_type>> ELSE <<"plan">>,
                      AnalyzePlan(st.task_type, outcome))
        r == Allocate(p.heap, <<"step_results">>, <<>>)
    IN  [heap |-> r.heap,
         state |-> [st EXCEPT !.planner_outcome = outcome, !.plan = p.ref,
                              !.current_step = 0, !.step_results = r.ref,
                              !.status = "planning", !.pc = "select_agent"],
         events |-> <<"task.started">>]

\* select_agent: the log is copied, the entry appended to the copy
select_agent(h, st, table) ==
    LET copy == Allocate(h, <<"selection_log">>, h[st.agent_selection_log].items)
        p == h[st.plan].items
    IN  IF st.current_step >= Len(p)
        THEN [heap |-> copy.heap,
              state |-> [st EXCEPT !.selected_agent_id = NoAgent,
                                   !.pc = check_agent_selection(NoAgent)],
              events |-> <<>>]
        ELSE LET required_skill == p[st.current_step + 1].skill
                 candidates == OnlineAgents(table)
                 sel == Selection(candidates, required_skill)
                 logged == [copy.heap EXCEPT ![copy.ref].items =
                               Append(@, LogEntry(st.current_step, required_skill,
                                                  candidates, sel))]
             IN  IF sel.selected = NoAgent
                 THEN [heap |-> logged,
                       state |-> [st EXCEPT !.selected_agent_id = NoAgent,
                                            !.agent_selection_log = copy.ref,
                                            !.error = NoAgentsError(required_skill),
                                            !.status = "failed",
                                            !.pc = check_agent_selection(NoAgent)],
                       events |-> <<"system.warning">>]
                 ELSE [heap |-> logged,
                       state |-> [st EXCEPT !.selected_agent_id = sel.selected,
                                            !.skill_name = required_skill,
                                            !.agent_selection_log = copy.ref,
                                            !.status = "executing",
                                            !.pc = check_agent_selection(sel.selected)],
                       events |-> <<"task.assigned">>]

\* execute_skill up to its return: the result is appended to the list in the
\* state and the plan entry is updated in place
execute_skill(h, st, table, result_text) ==
    IF st.selected_agent_id = NoAgent \/ st.skill_name \in {NULL, ""}
    THEN [heap |-> h,
          state |-> [st EXCEPT !.error = NoSelectionError, !.status = "failed",
                               !.pc = should_continue("failed", st.current_step,
                                                      h[st.plan].items)],
          events |-> <<>>]
    ELSE IF ~AgentExists(table, st.selected_agent_id)
    THEN [heap |-> h,
          state |-> [st EXCEPT !.error = AgentNotFoundError(st.selected_agent_id),
                               !.status = "failed",
                               !.pc = should_continue("failed", st.current_step,
                                                      h[st.plan].items)],
          events |-> <<>>]
    ELSE [heap |-> [h EXCEPT
                       ![st.step_results].items =
                           Append(@, StepResult(st.current_step + 1, st.selected_agent_id,
                                                st.skill_name, result_text)),
                       ![st.plan].items = MarkCompleted(@, st.current_step, result_text)],
          state |-> [st EXCEPT !.pc = "execute_skill_return"],
          events |-> <<"task.progress">>]

\* the state execute_skill returns is applied and the conditional edge taken
execute_skill_return(h, st) ==
    [heap |-> h,
     state |-> [st EXCEPT !.current_step = st.current_step + 1,
                          !.pc = should_continue(st.status, st.current_step + 1,
                                                 h[st.plan].items)],
     events |-> <<>>]

aggregate_results(h, st) ==
    [heap |-> h,
     state |-> [st EXCEPT !.final_result = FinalResult(h[st.step_results].items),
                          !.status = AggregateStatus(h[st.step_results].items),
                          !.pc = "done"],
     events |-> <<"task.completed">>]

\* the dictionary execute_task returns: its lists are the lists of the state
execute_task_result(h, st) ==
    [status |-> st.status, result |-> st.final_result, error |-> st.error,
     steps |-> h[st.step_results].items, plan |-> h[st.plan].items,
     agent_selection_log |-> h[st.agent_selection_log].items]

\* the node the graph runs next
Node(h, st, table, outcome, result_text) ==
    CASE st.pc = "analyze_task" -> analyze_task(h, st, outcome)
      [] st.pc = "select_agent" -> select_agent(h, st, table)
      [] st.pc = "execute_skill" -> execute_skill(h, st, table, result_text)
      [] st.pc = "execute_skill_return" -> execute_skill_return(h, st)
      [] st.pc = "aggregate_results" -> aggregate_results(h, st)

\* a node of execution e has run
Ran(e, n) ==
    /\ heap' = n.heap
    /\ executions' = [executions EXCEPT ![e] = n.state]
    /\ queue' = PublishAll(queue, next_event_id, n.events)
    /\ next_event_id' = next_event_id + Len(n.events)
    /\ UNCHANGED <<mcp_vars, orch_vars, table_vars, loop_vars>>

ExecutionStarts(e, tt) ==
    /\ executions[e].pc = "idle"
    /\ Ran(e, initial_state(heap, tt))

ExecutionAnalyzes(e, outcome) ==
    /\ executions[e].pc = "analyze_task"
    /\ Ran(e, Node(heap, executions[e], agents, outcome, ResponseOf[e]))

ExecutionSelects(e) ==
    /\ executions[e].pc = "select_agent"
    /\ Ran(e, Node(heap, executions[e], agents, executions[e].planner_outcome,
                   ResponseOf[e]))

ExecutionExecutes(e) ==
    /\ executions[e].pc = "execute_skill"
    /\ Ran(e, Node(heap, executions[e], agents, executions[e].planner_outcome,
                   ResponseOf[e]))

ExecutionAdvances(e) ==
    /\ executions[e].pc = "execute_skill_return"
    /\ Ran(e, Node(heap, executions[e], agents, executions[e].planner_outcome,
                   ResponseOf[e]))

ExecutionAggregates(e) ==
    /\ executions[e].pc = "aggregate_results"
    /\ Ran(e, Node(heap, executions[e], agents, executions[e].planner_outcome,
                   ResponseOf[e]))

\* Every interleaving of the nodes of two executions, over agents that are in
\* place before either starts.
NextConcurrent ==
    \/ \E skills \in AgentSkillSets :
           (\A e \in Executions : executions[e].pc = "idle") /\ SeedAgent(skills)
    \/ \E e \in Executions, tt \in TaskTypes : ExecutionStarts(e, tt)
    \/ \E e \in Executions, outcome \in ConcurrentOutcomes : ExecutionAnalyzes(e, outcome)
    \/ \E e \in Executions : ExecutionSelects(e)
    \/ \E e \in Executions : ExecutionExecutes(e)
    \/ \E e \in Executions : ExecutionAdvances(e)
    \/ \E e \in Executions : ExecutionAggregates(e)

SpecConcurrent == Init /\ [][NextConcurrent]_vars

\* ------------------------------------------------------------------ claims
Returned == pc = "done"

Skills(p) == [i \in 1..Len(p) |-> p[i].skill]

SelectionFault ==
    \E i \in 1..Len(agent_selection_log) : agent_selection_log[i].selected = NoAgent

ErrorPayload == "Error: skill failed"

\* C1: when no agent is online at the selection for the first plan step, the
\* returned status is "failed", the error names the skill of step 0 and the
\* steps list is empty.
C1_NoAgentsReturnsFailed ==
    (Returned /\ Len(agent_selection_log) >= 1 /\ agent_selection_log[1].candidates = <<>>)
        => /\ ExecuteTaskResult.status = "failed"
           /\ ExecuteTaskResult.error = NoAgentsError(plan[1].skill)
           /\ ExecuteTaskResult.steps = <<>>

\* C2: the returned status is "failed" exactly when some selection found no
\* selectable agent.
C2_FailedIffSelectionFault ==
    Returned => (ExecuteTaskResult.status = "failed" <=> SelectionFault)

\* C3: an error payload returned for a step is recorded in its step result and
\* the returned status is then "completed_with_errors".
C3_ErrorPayloadDowngrades ==
    (Returned /\ \E i \in 1..Len(step_results) : step_results[i].result = ErrorPayload)
        => ExecuteTaskResult.status = "completed_with_errors"

\* C4: execute_task never raises, whatever the planner call, the agent lookup
\* and the skill invocation do.
C4_NeverRaises == pc # "raised"

\* C5: in a returned result the number of step results equals the plan length,
\* unless the status is "failed" because of a selection fault.
C5_StepsMatchPlanLength ==
    (Returned /\ ~(ExecuteTaskResult.status = "failed" /\ SelectionFault))
        => Len(ExecuteTaskResult.steps) = Len(ExecuteTaskResult.plan)

Min(S) == CHOOSE x \in S : \A y \in S : x <= y

Analyzed == pc \notin {"idle", "analyze_task"}

\* C6: for a plan step, select_agent chooses the first online agent, in table
\* order, whose skills contain the required skill; failing that the first
\* online agent whatever its skills; and none only when no agent is online.
C6_FirstMatchElseFirstOnline ==
    [][(pc = "select_agent" /\ pc' \notin {"select_agent", "raised"}
            /\ current_step < Len(plan))
        => LET skill == plan[current_step + 1].skill
               online == {i \in 1..Len(agents) : agents[i].status = "online"}
               matching == {i \in online : skill \in agents[i].skills}
           IN /\ matching # {} => selected_agent_id' = agents[Min(matching)].id
              /\ (matching = {} /\ online # {}) => selected_agent_id' = agents[Min(online)].id
              /\ selected_agent_id' = NoAgent <=> online = {}]_vars

C6_Witness ==
    \E m, f \in 1..Len(agent_selection_log) :
        /\ Len(agent_selection_log[m].candidates) = 2
        /\ agent_selection_log[m].selected = agent_selection_log[m].candidates[2].id
        /\ Len(agent_selection_log[f].candidates) = 2
        /\ agent_selection_log[f].skill_matches = <<>>
        /\ agent_selection_log[f].selected = agent_selection_log[f].candidates[1].id

\* C7: when the planner call raises, the plan is exactly the static fallback
\* list of the task type, every step is pending when selection starts, and the
\* planner fault is not reported as an error.
C7_PlannerFailureUsesFallback ==
    (Analyzed /\ planner_outcome = CompletionError)
        => /\ Skills(plan) = CASE task_type = "code_review" -> <<"review_code">>
                               [] task_type = "bug_fix" -> <<"debug_code", "generate_code">>
                               [] OTHER -> <<"generate_code">>
           /\ (pc = "select_agent" /\ agent_selection_log = <<>>)
                => /\ \A i \in 1..Len(plan) :
                        plan[i].status = "pending" /\ plan[i].result = NULL
                   /\ current_step = 0
                   /\ error = NoError
                   /\ status = "planning"
           /\ \/ error = NoError
              \/ error[1] \in {"No agents available for skill: ",
                               "No agent or skill selected", "Agent not found"}

C7_Witness ==
    /\ planner_outcome = CompletionError
    /\ task_type = "bug_fix"
    /\ Returned
    /\ Len(step_results) = 2
    /\ error = NoError

Malformed(v) ==
    \/ v.kind \in {"str", "other"}
    \/ v.kind = "list" /\ \E i \in 1..Len(v.items) : v.items[i].kind # "str"

RECURSIVE StringsOf(_)
StringsOf(items) ==
    IF items = <<>> THEN <<>>
    ELSE IF Head(items).kind = "str" THEN <<Head(items).s>> \o StringsOf(Tail(items))
    ELSE StringsOf(Tail(items))

C9_Bounded == current_step \in 0..Len(plan)

C9_Step ==
    /\ current_step' \in {current_step, current_step + 1}
    /\ (Analyzed /\ current_step = Len(plan))
        => /\ pc' \in {pc, "aggregate_results", "done"}
           /\ agent_selection_log' = agent_selection_log
           /\ step_results' = step_results
           /\ current_step' = current_step
    /\ pc' = "done" => status' \in {"completed", "completed_with_errors", "failed"}

\* C9: the step index only grows, by one at a time, and stays within the plan
\* length; once it equals the plan length nothing is selected or executed any
\* more and the execution only moves on to aggregation and its return.
C9_StepIndexMonotoneBounded == []C9_Bounded /\ [][C9_Step]_vars

C9_Witness == Returned /\ Len(plan) = 2 /\ current_step = Len(plan)

\* C10: the k-th step result is that of plan step k, which is then completed
\* or failed, and a pending step has no step result.
C10_StepResultsMirrorPlan ==
    /\ Len(step_results) <= Len(plan)
    /\ \A k \in 1..Len(plan) :
        IF k <= Len(step_results)
        THEN /\ step_results[k].step = k
             /\ step_results[k].skill = plan[k].skill
             /\ plan[k].status \in {"completed", "failed"}
        ELSE plan[k].status = "pending"

C10_Witness ==
    /\ pc = "select_agent"
    /\ Len(plan) = 2
    /\ Len(step_results) = 1
    /\ plan[1].status = "completed"
    /\ plan[2].status = "pending"

\* C11: in every state, every plan step below the current step index has a
\* status other than pending: the step is marked before the index moves on.
C11_MarkedBeforeIndexAdvances ==
    \A k \in 1..Len(plan) : k <= current_step => plan[k].status # "pending"

C11_Witness ==
    /\ pc = "execute_skill_return"
    /\ Len(plan) = 2
    /\ current_step = 1
    /\ plan[1].status = "completed"
    /\ plan[2].status = "completed"

EventTypes(evs) == [i \in 1..Len(evs) |-> evs[i].type]

CountType(evs, type) == Cardinality({i \in 1..Len(evs) : evs[i].type = type})

Ended == pc \in {"done", "raised"}

C12_Order(ended) ==
    LET n == Len(published)
        executed == Len(step_results)
    IN /\ n >= 1 => published[1].type = "task.started"
       /\ CountType(published, "task.started") <= 1
       /\ \A k \in 1..executed :
            /\ 2 * k + 1 <= n
            /\ published[2 * k].type = "task.assigned"
            /\ published[2 * k + 1] = Event("task.progress", k, Len(plan))
       /\ CountType(published, "task.progress") = executed
       /\ CountType(published, "system.warning") = (IF SelectionFault THEN 1 ELSE 0)
       /\ \A i \in 1..n : published[i].type = "system.warning" => i = 2 * executed + 2
       /\ \A i \in 1..n : published[i].type = "task.assigned" =>
            i \in {2 * k : k \in 1..(executed + 1)}
       /\ CountType(published, "task.completed") = (IF ended THEN 1 ELSE 0)
       /\ ended => published[n].type = "task.completed"

\* C12: the events of an execution are published in the order of the graph:
\* task.started first, an assignment and then the progress event (k of the
\* plan length) for each executed step, a system.warning only on a failed
\* selection, and one task.completed, last, once the execution has ended.
C12_EventsInGraphOrder == C12_Order(Ended)

\* the same order, for the executions that return
C12_OrderWhenReturned == C12_Order(Returned)

C13_Log ==
    /\ \A i \in 1..Len(agent_selection_log) :
        /\ agent_selection_log[i].step = i - 1
        /\ agent_selection_log[i].required_skill = plan[i].skill
    /\ Len(agent_selection_log) \in {Len(step_results), Len(step_results) + 1}
    /\ \A k \in 1..Len(step_results) :
        step_results[k].agent_id = agent_selection_log[k].selected

C13_Step ==
    /\ \/ agent_selection_log' = agent_selection_log
       \/ /\ Len(agent_selection_log') = Len(agent_selection_log) + 1
          /\ SubSeq(agent_selection_log', 1, Len(agent_selection_log)) = agent_selection_log
          /\ pc = "select_agent"
    /\ (pc = "select_agent" /\ pc' \notin {"select_agent", "raised"}
            /\ current_step < Len(plan))
        => /\ Len(agent_selection_log') = Len(agent_selection_log) + 1
           /\ agent_selection_log'[Len(agent_selection_log')].selected = selected_agent_id'

\* C13: each selection on a plan step appends one entry to the log and leaves
\* the earlier entries alone; the log has one entry per attempted step in step
\* order, and a step result names the agent its log entry chose.
C13_OneLogEntryPerDecision == []C13_Log /\ [][C13_Step]_vars

C13_Witness ==
    /\ Returned
    /\ Len(agent_selection_log) = 2
    /\ Len(step_results) = 2
    /\ step_results[1].agent_id # step_results[2].agent_id
\* ------------------------------------------------------------------- C15
EventIds(entries) == [i \in 1..Len(entries) |-> entries[i].event_id]

\* the queue is a run of consecutive events ending with the newest published
C15_Queue ==
    /\ Len(queue) <= QueueCapacity
    /\ \A i \in 1..Len(queue) :
           queue[i].event_id = next_event_id - 1 - Len(queue) + i

NothingTaken == \A t \in 1..Len(tasks) : tasks[t].event = NoEvent

Published == next_event_id - 1

\* with no dispatch so far the queue holds the most recent events, as many as fit
C15_RecentQueued ==
    NothingTaken => Len(queue) = (IF Published < QueueCapacity THEN Published
                                  ELSE QueueCapacity)

C15_NeverBlocks == next_event_id <= MaxPublish => ENABLED Publish("agent.connected")

\* a publish step leaves the new event last in the queue and, on a full queue,
\* removes the oldest queued event and no other
C15_Publish ==
    next_event_id' = next_event_id + 1 =>
        /\ queue' # <<>>
        /\ queue'[Len(queue')].event_id = next_event_id
        /\ IF Len(queue) >= QueueCapacity
           THEN SubSeq(queue', 1, Len(queue') - 1) = Tail(queue)
           ELSE SubSeq(queue', 1, Len(queue') - 1) = queue

\* C15: publish never blocks and always leaves the new event queued; the queue
\* never holds more than its capacity; a publish on a full queue discards
\* exactly the oldest queued event, so that after an overflow with no dispatch
\* the most recently published events, as many as the capacity, are delivered.
C15_PublishDropsOldest ==
    [](C15_Queue /\ C15_RecentQueued /\ C15_NeverBlocks) /\ [][C15_Publish]_vars

\* three events published before the loop took one: the handler got the last two
C15_Witness ==
    /\ Published > QueueCapacity
    /\ queue = <<>>
    /\ Len(invoked) = QueueCapacity
    /\ \A i \in 1..Len(invoked) :
           invoked[i].event_id = Published - QueueCapacity + i

\* ------------------------------------------------------------------- C17
\* topic T is kind K, or the prefix wildcard of K, or the bare wildcard
C17_Matches(T, K) ==
    \/ T = K
    \/ /\ Len(T) > 1
       /\ T[Len(T)] = "*"
       /\ SubSeq(T, 1, Len(T) - 1) = SubSeq(K, 1, Len(K) - 1)
    \/ T = <<"*">>

Takes(t) ==
    /\ t \in 1..Len(tasks)
    /\ tasks[t].state = "waiting"
    /\ queue # <<>>
    /\ queue' = Tail(queue)
    /\ tasks'[t].event = Head(queue)

CalledHandlers(task) == {task.calls[i].handler : i \in 1..Len(task.calls)}

SubscribedUnder(h, T) == h \in Range(handlers[T])

C17_Step ==
    \A t \in 1..MaxTasks :
        Takes(t) =>
            \A h \in HandlerIds :
                h \in CalledHandlers(tasks'[t]) <=>
                    \E T \in Topics :
                        SubscribedUnder(h, T) /\ C17_Matches(T, EventType[Head(queue).type])

\* C17: when the loop takes an event of kind K, it calls a handler if and only
\* if the handler is subscribed under K itself, under the prefix wildcard of K,
\* or under the bare wildcard.
C17_TopicMatching == [][C17_Step]_vars

\* an agent.disconnected event went to the handler under agent.* and not to the
\* handler under task.created
C17_Witness ==
    /\ handlers[<<"agent", "*">>] = <<1>>
    /\ handlers[<<"task", "created">>] = <<2>>
    /\ \E t \in 1..Len(tasks) :
           /\ tasks[t].state = "waiting"
           /\ tasks[t].event.type = "agent.disconnected"
    /\ \E i \in 1..Len(invoked) :
           invoked[i].handler = 1 /\ invoked[i].type = "agent.disconnected"
    /\ \A i \in 1..Len(invoked) : invoked[i].handler # 2

\* ------------------------------------------------------------------- C18
Dispatching(t) == t \in 1..Len(tasks) /\ tasks[t].state = "dispatching"

\* whatever the other calls did, the next scheduled call can start, a finished
\* dispatch can return, and a waiting loop can take the next event
C18_NothingBlocked ==
    \A t \in 1..Len(tasks) :
        /\ (Dispatching(t) /\ \E i \in 1..Len(tasks[t].calls) :
                                  tasks[t].calls[i].phase = "scheduled")
               => \E i \in 1..Len(tasks[t].calls) : ENABLED SafeCallStarts(t, i)
        /\ (Dispatching(t) /\ \A i \in 1..Len(tasks[t].calls) : Finished(tasks[t].calls[i]))
               => ENABLED DispatchReturns(t)
        /\ (tasks[t].state = "waiting" /\ queue # <<>>) => ENABLED ProcessEventsGets(t)

Raises(t, i) ==
    /\ Dispatching(t)
    /\ i \in 1..Len(tasks[t].calls)
    /\ tasks[t].calls[i].phase = "running"
    /\ tasks'[t].calls[i].phase = "raised"

\* a raise changes the raising call and nothing else; the dispatch goes back to
\* the loop test, and the running loop to its wait
C18_Step ==
    \A t \in 1..MaxTasks :
        /\ \A i \in 1..MaxSubscriptions :
               Raises(t, i) =>
                   /\ tasks'[t].state = "dispatching"
                   /\ \A j \in 1..Len(tasks[t].calls) :
                          j # i => tasks'[t].calls[j] = tasks[t].calls[j]
                   /\ UNCHANGED <<queue, next_event_id, running, handlers>>
        /\ (Dispatching(t) /\ tasks'[t].state # "dispatching")
               => tasks'[t].state = (IF running THEN "waiting" ELSE "ended")

\* C18: a handler that raises keeps no other handler of the event from being
\* called, leaves the dispatch loop running and able to take later events, and
\* reaches no publisher.
C18_HandlerFailureIsolated == []C18_NothingBlocked /\ [][C18_Step]_vars

\* handler 1 raised on event 1; handler 2 was still called for it, and both
\* were called for event 2
C18_Witness ==
    \E a, b, c, d \in 1..Len(invoked) :
        /\ a < b /\ b < c /\ c < d
        /\ invoked[a].event_id = 1 /\ invoked[a].handler = 1 /\ invoked[a].outcome = "raised"
        /\ invoked[b].event_id = 1 /\ invoked[b].handler = 2 /\ invoked[b].outcome = "returned"
        /\ invoked[c].event_id = 2 /\ invoked[c].handler = 1
        /\ invoked[d].event_id = 2 /\ invoked[d].handler = 2

\* ------------------------------------------------------------- C19 and C20
\* a stop() call has returned and start() has not been called since that call
\* began: the flag is down and no stop() is suspended
Stopped == ~running /\ SuspendedStops = 0

C19_LoopEnded == Stopped => \A t \in 1..Len(tasks) : tasks[t].state = "ended"

\* while stopped no handler is invoked, and a further stop() changes nothing
C19_Step ==
    /\ (Stopped /\ ~running') => Len(invoked') = Len(invoked)
    /\ (Stopped /\ Stop) => UNCHANGED vars

\* C19: once stop() has returned, every dispatch loop has ended and no handler
\* is invoked until start() is called; stop() on a stopped or never started
\* bus changes nothing.
C19_StopEndsLoop == []C19_LoopEnded /\ [][C19_Step]_vars

\* loops that can still take and dispatch events
LiveLoops == {t \in 1..Len(tasks) : tasks[t].state \in {"created", "waiting", "dispatching"}}

\* C20: under every interleaving of start() and stop() calls at most one
\* dispatch loop is alive.
C20_AtMostOneLoop == Cardinality(LiveLoops) <= 1

\* ------------------------------------------------------------------- C16
Queued(id) == \E i \in 1..Len(queue) : queue[i].event_id = id

QueuedOfType(id, type) ==
    \E i \in 1..Len(queue) : queue[i].event_id = id /\ queue[i].type = type

Invocations(h, id) ==
    {k \in 1..Len(invoked) : invoked[k].handler = h /\ invoked[k].event_id = id}

\* the event waits in the queue of a running bus with the handler subscribed
Deliverable(id) ==
    /\ QueuedOfType(id, "agent.connected")
    /\ running
    /\ handlers[EventType["agent.connected"]] = <<1>>

C16_AtMostOnce == \A id \in 1..MaxPublish : Cardinality(Invocations(1, id)) <= 1

\* nothing is lost: an event leaves the queue only into a dispatch
C16_NoneLost ==
    \A id \in 1..MaxPublish :
        id < next_event_id =>
            \/ Queued(id)
            \/ \E t \in 1..Len(tasks) : tasks[t].event.event_id >= id

\* C16: on a running bus whose queue never overflows, every event published to
\* a topic with one subscribed handler is eventually handed to that handler,
\* and no event is handed to it twice.
C16_EachEventOnce ==
    /\ [](C16_AtMostOnce /\ C16_NoneLost)
    /\ \A id \in 1..MaxPublish : Deliverable(id) ~> (Cardinality(Invocations(1, id)) = 1)

\* all events published after the subscription, each delivered once, in order
C16_Witness ==
    /\ Published = MaxPublish
    /\ queue = <<>>
    /\ Len(invoked) = MaxPublish
    /\ \A k \in 1..Len(invoked) :
           /\ invoked[k].event_id = k
           /\ invoked[k].handler = 1
           /\ invoked[k].outcome # "running"

\* ------------------------------------------------------------------- C14
\* What the graph returns for a task type, a planner outcome, a table of agents
\* that stays as it is during the execution, and one response for every step.
C14_Expected ==
    LET skills == Skills(AnalyzePlan(task_type, planner_outcome))
        candidates == OnlineAgents(agents)
        executed == IF candidates = <<>> THEN 0 ELSE Len(skills)
        attempted == IF candidates = <<>> /\ Len(skills) > 0 THEN 1 ELSE executed
        steps == [k \in 1..executed |->
                     StepResult(k, Selection(candidates, skills[k]).selected,
                                skills[k], Response)]
    IN [status |-> AggregateStatus(steps),
        result |-> FinalResult(steps),
        error |-> IF attempted > executed THEN NoAgentsError(skills[1]) ELSE NoError,
        steps |-> steps,
        plan |-> [k \in 1..Len(skills) |->
                     IF k <= executed
                     THEN [skill |-> skills[k], status |-> "completed", result |-> Response]
                     ELSE PendingStep(skills[k])],
        agent_selection_log |-> [k \in 1..attempted |->
                     LogEntry(k - 1, skills[k], candidates,
                              Selection(candidates, skills[k]))]]

C14_SameResult == Returned => ExecuteTaskResult = C14_Expected

\* whatever the bus is doing, the node the execution is at can run
C14_NeverWaits ==
    /\ pc = "analyze_task" => ENABLED AnalyzeTask(CompletionError)
    /\ pc = "select_agent" => ENABLED SelectAgent
    /\ pc = "execute_skill" => ENABLED ExecuteSkill(Response)
    /\ pc = "execute_skill_return" => ENABLED ExecuteSkillReturn
    /\ pc = "aggregate_results" => ENABLED AggregateResults

\* C14: the value execute_task returns is the one its task, planner outcome,
\* agents and responses determine, in every state of the bus (stopped, running,
\* queue full, handler running or failed), and no node waits for the bus.
C14_ResultIndependentOfBus == C14_SameResult /\ C14_NeverWaits

\* a two-step execution has returned; its first events overflowed the queue of
\* the stopped bus, a later one made the handler raise, and the handler is
\* still running on another
C14_Witness ==
    /\ Returned
    /\ Len(step_results) = 2
    /\ Published > QueueCapacity + Len(invoked)
    /\ invoked # <<>>
    /\ invoked[1].event_id > 1
    /\ \E k \in 1..Len(invoked) : invoked[k].outcome = "raised"
    /\ \E k \in 1..Len(invoked) : invoked[k].outcome = "running"

\* ------------------------------------------------------------------- C21
RegisterCalls(agent_id) ==
    {o \in DOMAIN ops : ops[o].kind = "register_agent" /\ ops[o].agent_id = agent_id}

ConnectionsOf(agent_id) == {c \in DOMAIN conns : conns[c].agent_id = agent_id}

\* the call has entered AgentConnection.connect
ConnectStarted(o) ==
    \/ ops[o].pc \in {"opening", "initializing", "discovering", "closing"}
    \/ ops[o].connected # "pending"

C21_OneConnection ==
    \A agent_id \in AgentIds :
        RegisterCalls(agent_id) # {} =>
            /\ Cardinality(ConnectionsOf(agent_id)) = 1
            /\ Len(SelectSeq(connections, LAMBDA c : c \in ConnectionsOf(agent_id))) = 1
            /\ \A o \in RegisterCalls(agent_id) :
                   /\ ops[o].conn = get_connection(State, agent_id)
                   /\ ops[o].pc = "done" => ops[o].ret = "connection"
            /\ Cardinality({o \in RegisterCalls(agent_id) : ConnectStarted(o)}) <= 1

\* a register call for an id that is registered changes nothing of its connection
C21_Step ==
    \A agent_id \in AgentIds :
        (/\ Len(ops') = Len(ops) + 1
         /\ ops'[Len(ops')].agent_id = agent_id
         /\ RegisterCalls(agent_id) # {})
            => /\ conns' = conns
               /\ connections' = connections

\* C21: under any interleaving of register calls the registry holds exactly
\* one connection per registered id, every register call for the id returns
\* that connection, a re-registration leaves the connection as it was, and
\* at most one of the calls starts a connect.
C21_RegisterIdempotent == []C21_OneConnection /\ [][C21_Step]_vars

\* two calls for one id with different endpoints, both asked to connect and
\* both returned, the first one's connect having completed
C21_Witness ==
    \E o1, o2 \in DOMAIN ops :
        /\ o1 < o2
        /\ ops[o1].agent_id = ops[o2].agent_id
        /\ ops[o1].arg # ops[o2].arg
        /\ ops[o1].connect /\ ops[o2].connect
        /\ ops[o1].pc = "done" /\ ops[o2].pc = "done"
        /\ ops[o1].connected = "true"
        /\ conns[ops[o2].conn].mcp_endpoint = ops[o1].arg

\* ------------------------------------------------------------------- C22
\* the step is a call of the given kind; the call is the last of ops'
Called(kind) ==
    /\ Len(ops') = Len(ops) + 1
    /\ ops'[Len(ops')].kind = kind

\* the step touched neither a connection, a session, a client nor the bus
NoTransport ==
    /\ ~ops'[Len(ops')].transport
    /\ ops'[Len(ops')].published = <<>>
    /\ <<connections, conns, sessions, clients, queue>>' =
           <<connections, conns, sessions, clients, queue>>

C22_Step ==
    Called("call_tool") =>
        LET called == ops'[Len(ops')]
            c == get_connection(State, called.agent_id)
        IN  /\ c = None =>
                /\ called.pc = "done" /\ called.ret = "not_found"
                /\ NoTransport
            /\ (c # None /\ conns[c].status # "online") =>
                /\ called.pc = "done" /\ called.ret = "not_online"
                /\ NoTransport

\* C22: call_tool for an agent id that is not registered, or whose connection
\* is not online, returns a failure value at once, raises nothing, uses no
\* session and publishes no event.
C22_CallToolRefused == [][C22_Step]_vars

\* one call refused for an unknown id and one for a connection that failed
C22_Witness ==
    \E o1, o2 \in DOMAIN ops :
        /\ ops[o1].kind = "call_tool" /\ ops[o1].ret = "not_found"
        /\ ops[o2].kind = "call_tool" /\ ops[o2].ret = "not_online"
        /\ conns[get_connection(State, ops[o2].agent_id)].status = "error"

\* ------------------------------------------------------------------- C24
\* the registry entries, in order, that are online and list the tool
C24_Capable(tool_name) ==
    {i \in DOMAIN connections :
        /\ connections[i] # None
        /\ conns[connections[i]].status = "online"
        /\ tool_name \in conns[connections[i]].tools}

C24_AgentsWithTool ==
    \A tool_name \in ToolNames :
        LET found == get_agents_with_tool(State, tool_name)
        IN  /\ {found[i] : i \in DOMAIN found} =
                   {connections[i] : i \in C24_Capable(tool_name)}
            /\ \A i, j \in DOMAIN found :
                   i < j => \E k, l \in C24_Capable(tool_name) :
                                k < l /\ connections[k] = found[i] /\ connections[l] = found[j]

C24_Step ==
    Called("call_tool_on_any") =>
        LET called == ops'[Len(ops')]
            capable == C24_Capable(called.arg)
        IN  /\ capable = {} =>
                /\ called.pc = "done" /\ called.ret = "no_agent"
                /\ NoTransport
            /\ capable # {} =>
                /\ called.conn = connections[Min(capable)]
                /\ called.transport
                /\ called.pc = "calling"
                /\ called.session = conns[called.conn].session

\* C24: call_tool_on_any calls the tool on the first registry entry that is
\* online and lists the tool, get_agents_with_tool being those entries in
\* registry order, and returns a failure value without using any session
\* when there is none.
C24_FirstCapableAgent == []C24_AgentsWithTool /\ [][C24_Step]_vars

\* the call went to the second entry because the first, online too, does not
\* list the tool
C24_Witness ==
    \E o \in DOMAIN ops :
        /\ ops[o].kind = "call_tool_on_any"
        /\ ops[o].transport
        /\ Len(connections) = 2
        /\ ops[o].conn = connections[2]
        /\ conns[connections[1]].status = "online"

\* ------------------------------------------------------------------- C23
\* the unregister calls that returned after removing a connection
Unregistered ==
    {o \in DOMAIN ops : /\ ops[o].kind = "unregister_agent"
                        /\ ops[o].pc = "done"
                        /\ ops[o].conn # None}

C23_Step ==
    (Called("unregister_agent") /\ get_connection(State, ops'[Len(ops')].agent_id) = None
                                /\ lock.holder = None /\ lock.waiters = <<>>)
        => /\ ops'[Len(ops')].pc = "done"
           /\ ops'[Len(ops')].ret = "none"
           /\ <<connections, conns, sessions, clients, queue>>' =
                  <<connections, conns, sessions, clients, queue>>

C23_RemovedNotOnline ==
    \A o \in Unregistered :
        /\ \A i \in DOMAIN connections : connections[i] # ops[o].conn
        /\ conns[ops[o].conn].status # "online"

\* C23: once unregister has returned, the connection it removed is out of
\* the registry and is not online, then or later, whatever register or
\* connect call for it was in flight; unregister of an unknown id changes
\* nothing.
C23_UnregisterDisconnects == []C23_RemovedNotOnline /\ [][C23_Step]_vars

\* ------------------------------------------------------------------- C25
\* the step is the return of call o
Returns(o) ==
    /\ o \in DOMAIN ops'
    /\ ops'[o].pc = "done"
    /\ o \in DOMAIN ops => ops[o].pc # "done"

C25_Step ==
    \A o \in Ops :
        (Returns(o) /\ ops'[o].kind = "close_all") =>
            /\ ops'[o].ret = "none"
            /\ Values(connections') = <<>>
            /\ \A i \in DOMAIN connections :
                   connections[i] # None => conns'[connections[i]].status # "online"

\* C25: close_all returns without an error, and at its return the registry
\* is empty and no connection that was in it is online, also when register
\* and unregister calls run during the call.
C25_CloseAllEmptiesRegistry == [][C25_Step]_vars

\* ------------------------------------------------------------------- C26
\* the tool calls awaiting their reply on connection c
InFlight(c) == {o \in DOMAIN ops : ops[o].pc = "calling" /\ ops[o].conn = c}

\* C26: on one connection at most one tool call awaits its reply at any
\* time.
C26_OneInvocationPerConnection ==
    \A c \in DOMAIN conns : Cardinality(InFlight(c)) <= 1

\* ------------------------------------------------------------------- C27
\* the step is the return of the connect() that call o is in
ConnectReturns(o) ==
    /\ o \in DOMAIN ops
    /\ ops[o].connected = "pending"
    /\ ops'[o].connected # "pending"

C27_Step ==
    \A o \in Ops :
        ConnectReturns(o) =>
            LET c == conns'[ops'[o].conn]
                sent == {ops'[o].published[i] : i \in DOMAIN ops'[o].published}
            IN  /\ ops'[o].connected \in {"true", "false"}
                /\ ops'[o].ret # "raised"
                /\ c.status \in {"online", "error"}
                /\ ops'[o].connected = "true" <=> c.status = "online"
                /\ ops'[o].connected = "false" <=> c.status = "error"
                /\ c.status = "online" =>
                       /\ c.connected_at /\ c.last_activity
                       /\ "agent.connected" \in sent
                /\ c.status = "error" => "system.error" \in sent

\* C27: connect() returns true or false and raises nothing; it returns true
\* exactly when it leaves the connection online, with connected_at and
\* last_activity set and agent.connected published, and false exactly when
\* it leaves it in error, with system.error published.
C27_ConnectReturnsBoolean == [][C27_Step]_vars

\* one connect returned true, a later one on the same connection false
C27_Witness ==
    \E o1, o2 \in DOMAIN ops :
        /\ o1 < o2
        /\ ops[o1].conn = ops[o2].conn
        /\ ops[o1].connected = "true"
        /\ ops[o2].connected = "false"
        /\ conns[ops[o2].conn].status = "error"

\* ------------------------------------------------------------------- C28
\* C28: a connection that is online holds a session that is open, and its
\* capabilities have been discovered at least once.
C28_OnlineHasLiveSession ==
    \A c \in DOMAIN conns :
        conns[c].status = "online" =>
            /\ conns[c].session # None
            /\ conns[c].session \in sessions
            /\ conns[c].discovered

\* ------------------------------------------------------------------- C29
\* disconnect() of the connection returns in this step
DisconnectReturns(o) ==
    /\ Returns(o)
    /\ ops'[o].kind \in {"disconnect_agent", "unregister_agent"}
    /\ ops'[o].conn # None

Released(c) ==
    /\ c.session \notin sessions'
    /\ c.http_client = None

C29_Step ==
    \A o \in Ops :
        /\ (ConnectReturns(o) /\ ops'[o].connected = "false") =>
               Released(conns'[ops'[o].conn])
        /\ DisconnectReturns(o) => Released(conns'[ops'[o].conn])

\* every session and client that is open is the one its connection holds
C29_NoneOrphaned ==
    /\ \A k \in clients : \E c \in DOMAIN conns : conns[c].http_client = k
    /\ \A k \in sessions : \E c \in DOMAIN conns : conns[c].session = k

\* C29: when connect() returns false or disconnect() returns, the connection
\* holds no open session and no HTTP client, and no open session or client
\* is ever left behind by a later connect.
C29_ResourcesReleased == []C29_NoneOrphaned /\ [][C29_Step]_vars

\* ------------------------------------------------------------------- C30
Disconnected(c) ==
    /\ c.status = "offline"
    /\ c.session = None
    /\ c.http_client = None

C30_Step ==
    Called("disconnect_agent") =>
        LET called == ops'[Len(ops')]
            c == get_connection(State, called.agent_id)
        IN  (c # None /\ Disconnected(conns[c])) =>
                /\ called.pc = "done" /\ called.ret = "none"
                /\ conns' = conns
                /\ called.published = <<>>
                /\ queue' = queue

\* C30: disconnect() of a connection that is already disconnected changes
\* nothing, publishes no agent.disconnected event and raises nothing.
C30_DisconnectIdempotent == [][C30_Step]_vars

\* ------------------------------------------------------------------- C31
\* C31: AgentConnection.call_tool raises nothing, whatever the state of the
\* connection: once returned it has given a result or a failure value.
C31_CallToolNeverRaises ==
    \A o \in DOMAIN ops :
        (ops[o].kind = "connection.call_tool" /\ ops[o].pc = "done")
            => ops[o].ret \in {"success", "failed"}

\* ------------------------------------------------------------------- C32
C32_Statuses == {"pending", "online", "busy", "offline", "error"}

C32_Transitions ==
    {<<"pending", "online">>, <<"pending", "error">>, <<"online", "error">>,
     <<"online", "offline">>}
        \cup {<<from, "pending">> : from \in C32_Statuses}

C32_Step ==
    \A c \in DOMAIN conns :
        conns'[c].status # conns[c].status
            => <<conns[c].status, conns'[c].status>> \in C32_Transitions

\* C32: a connection changes status only from pending to online, from
\* pending or online to error, from online to offline, or to pending; so a
\* reconnect reaches online or error only from pending.
C32_SpecifiedTransitions == [][C32_Step]_vars

\* ------------------------------------------------------------------- C33
C33_Step ==
    \A o \in Ops :
        (ConnectReturns(o) /\ ops'[o].discovery_failed) =>
            /\ ops'[o].connected = "false"
            /\ conns'[ops'[o].conn].status = "error"

\* C33: a connect() during which the listing of the tools or resources
\* failed returns false and leaves the connection in error.
C33_DiscoveryFailureIsError == [][C33_Step]_vars

\* ------------------------------------------------------------------- C37
\* the registered connections in the given status
C37_InStatus(st) ==
    {i \in DOMAIN connections :
        connections[i] # None /\ conns[connections[i]].status = st}

C37_Step ==
    Called("health_check") =>
        LET summary == ops'[Len(ops')].health
        IN  /\ summary.total_agents =
                   Cardinality({i \in DOMAIN connections : connections[i] # None})
            /\ summary.online = Cardinality(C37_InStatus("online"))
            /\ summary.offline = Cardinality(C37_InStatus("offline"))
            /\ summary.error = Cardinality(C37_InStatus("error"))

\* C37: the summary health_check returns counts the registered connections:
\* total_agents all of them, online, offline and error those in exactly that
\* status.
C37_HealthCounts == [][C37_Step]_vars

\* ------------------------------------------------------------------- C34
\* the handler is subscribed at most once under each topic
SubscribedOncePerTopic(h) ==
    \A T \in Topics : Len(SelectSeq(handlers[T], LAMBDA x : x = h)) <= 1

\* C34: for each event a handler is invoked once, through however many of
\* its subscriptions, each under another topic, the event matches.
C34_InvokedOncePerEvent ==
    \A h \in HandlerIds :
        SubscribedOncePerTopic(h) =>
            \A id \in 1..MaxPublish : Cardinality(Invocations(h, id)) <= 1

\* ------------------------------------------------------------------- C38
\* invocations are logged in the order of their events
C38_InQueueOrder ==
    \A k, l \in 1..Len(invoked) :
        invoked[k].event_id < invoked[l].event_id => k < l

\* while an invocation for a later event exists, no handler of an earlier
\* event is running or still to start in a loop that was not cancelled
C38_EarlierFinished ==
    \A t \in 1..Len(tasks), l \in 1..Len(invoked) :
        (Dispatching(t) /\ tasks[t].event.event_id < invoked[l].event_id)
            => \A i \in 1..Len(tasks[t].calls) : Finished(tasks[t].calls[i])

\* C38: events are handled one at a time in queue order: every handler of
\* an event has finished before a handler of a later event starts.
C38_OneEventAtATime == C38_InQueueOrder /\ C38_EarlierFinished

\* ------------------------------------------------------------------- C40
\* an agent and a skill are selected and the table has no row of that agent
C40_Gone ==
    /\ selected_agent_id # NoAgent
    /\ skill_name \notin {NULL, ""}
    /\ \A i \in 1..Len(agents) : agents[i].id # selected_agent_id

\* execute_skill runs and returns while the selected agent is gone
C40_Step ==
    (pc = "execute_skill" /\ pc' \notin {"execute_skill", "raised"} /\ C40_Gone)
        => /\ step_results' = step_results
           /\ plan' = plan
           /\ plan[current_step + 1].status = "pending"
           /\ current_step' = current_step
           /\ pc' = "aggregate_results"
           /\ error' = AgentNotFoundError(selected_agent_id)

\* the execution has returned after execute_skill found the agent gone
C40_ReturnedNotFound ==
    Returned /\ error = AgentNotFoundError(selected_agent_id)

C40_Returned ==
    C40_ReturnedNotFound
        => /\ ExecuteTaskResult.error = AgentNotFoundError(selected_agent_id)
           /\ Len(ExecuteTaskResult.steps) = current_step
           /\ \A k \in 1..Len(plan) :
                  k > current_step => ExecuteTaskResult.plan[k].status = "pending"
           /\ \A k \in 1..Len(step_results) :
                  step_results[k].agent_id # selected_agent_id
                      \/ step_results[k].step <= current_step

\* C40: when the selected agent has no row left at the execute step, no
\* StepResult is appended, the step stays pending, the step index does not
\* advance, no later step is executed, and the returned result carries the
\* error "Agent <id> not found".
C40_AgentGoneStopsExecution == []C40_Returned /\ [][C40_Step]_vars

\* the second step of a two-step plan found its agent gone, after the first
\* step was executed
C40_Witness ==
    C40_ReturnedNotFound /\ Len(plan) = 2 /\ current_step = 1 /\ Len(step_results) = 1

\* ------------------------------------------------------------------- C35
\* the key under which the row of an agent is registered in the registry:
\* the row's own id
RegistryKey(agent_id) ==
    IF agent_id = 1 THEN "a" ELSE IF agent_id = 2 THEN "b" ELSE "unregistered"

\* the registry holds a connection of the agent and its status is online
C35_RegisteredOnline(agent_id) ==
    \E i \in 1..Len(get_online_agents(State)) :
        conns[get_online_agents(State)[i]].agent_id = RegistryKey(agent_id)

\* select_agent chooses an agent
C35_Step ==
    (pc = "select_agent" /\ pc' = "execute_skill")
        => C35_RegisteredOnline(selected_agent_id')

\* C35: every agent select_agent chooses is, when it is chosen, registered
\* in the connection registry with status online.
C35_SelectedIsOnlineInRegistry == [][C35_Step]_vars

\* ------------------------------------------------------------------- C36
\* select_agent has chosen, and execute_skill has executed, at most as
\* many times as the plan has steps
C36_LoopBound ==
    /\ Len(agent_selection_log) <= Len(plan)
    /\ Len(step_results) <= Len(plan)
    /\ current_step <= Len(plan)

\* a started execution reaches aggregate_results and returns
C36_Returns == (pc = "analyze_task") ~> Returned

C39_Lists(e) ==
    {executions[e].plan, executions[e].step_results,
     executions[e].agent_selection_log} \ {NoList}

\* what an execution returns when its nodes run one after the other on a
\* heap of their own
RECURSIVE C39_RunAlone(_, _, _, _, _)
C39_RunAlone(h, st, table, outcome, result_text) ==
    IF st.pc = "done" THEN execute_task_result(h, st)
    ELSE LET n == Node(h, st, table, outcome, result_text)
         IN  C39_RunAlone(n.heap, n.state, table, outcome, result_text)

C39_Alone(e) ==
    LET s0 == initial_state(<<>>, executions[e].task_type)
    IN  C39_RunAlone(s0.heap, s0.state, agents, executions[e].planner_outcome,
                     ResponseOf[e])

C39_Done(e) == executions[e].pc = "done"

\* no list is referred to by the states of two executions
C39_NoSharedList ==
    \A e1, e2 \in Executions : e1 # e2 => C39_Lists(e1) \cap C39_Lists(e2) = {}

\* every result in the returned steps and plan is a response to this execution
C39_OwnEntries ==
    \A e \in Executions :
        C39_Done(e) =>
            LET r == execute_task_result(heap, executions[e])
            IN  /\ \A k \in 1..Len(r.steps) : r.steps[k].result = ResponseOf[e]
                /\ \A k \in 1..Len(r.plan) :
                       r.plan[k].status = "completed" => r.plan[k].result = ResponseOf[e]

C39_SameAsAlone ==
    \A e \in Executions :
        C39_Done(e) => execute_task_result(heap, executions[e]) = C39_Alone(e)

\* C39: for any interleaving of two execute_task calls, the executions
\* share no list, and each returned plan, steps list and selection log holds
\* only entries of its own execution and equals what that execution returns
\* when it runs alone against the same agents and responses.
C39_ExecutionsIndependent == C39_NoSharedList /\ C39_OwnEntries /\ C39_SameAsAlone

\* two executions of the same two-step task type have returned, each having
\* analysed its task before the other selected the agent of its last step
C39_Witness ==
    /\ \A e \in Executions :
           /\ C39_Done(e)
           /\ executions[e].task_type = "bug_fix"
           /\ executions[e].planner_outcome = CompletionError
           /\ Len(heap[executions[e].step_results].items) = 2
    /\ executions["first"].plan < executions["second"].agent_selection_log
    /\ executions["second"].plan < executions["first"].agent_selection_log

====
